---- MODULE Spec2Model ----
(***************************************************************************)
(* Model of the diagnosis-exchange protocol of the DB observability tool:  *)
(*   - xml_utils.create_input_xml      (request encoder)                   *)
(*   - xml_utils.parse_diagnosis_xml   (diagnosis decoder)                 *)
(*   - gemini_client.DatabaseDiagnostician (analyze / improve / chat)      *)
(*   - streamlit_app improvement tracking (iteration history)              *)
(*                                                                         *)
(* Text is a sequence of lexical atoms.  An atom is a string: either one   *)
(* character (" ", "\n", "<", "&", ";", ...) or a run of characters that   *)
(* the code only ever treats as a unit (a keyword, a marker, a tag name).  *)
(* Python indices are kept 0-based, with -1 for "not found".               *)
(***************************************************************************)
EXTENDS Integers, Sequences, FiniteSets

VARIABLES
    pc,          \* which operation has run in the pure-function specifications
    enc_data,    \* create_input_xml: the bundle passed in
    enc_xml,     \* create_input_xml: the returned text
    dx_in,       \* parse_diagnosis_xml: the response text passed in
    dx_out,      \* parse_diagnosis_xml: the outcome of the call
    rt_diag,     \* prior-diagnosis reconstruction: the typed Diagnosis
    rt_block,    \* prior-diagnosis reconstruction: the rebuilt block
    rt_out,      \* prior-diagnosis reconstruction: the block decoded again
    iq_raw,      \* improve_query: the text of the model reply
    iq_out,      \* improve_query: the returned dictionary
    dg_data,     \* DatabaseDiagnostician: the db_data of the call
    dg_op,       \* DatabaseDiagnostician: the method called
    dg_reply,    \* DatabaseDiagnostician: what send_message did
    dg_out,      \* DatabaseDiagnostician: the outcome of the call
    sqlite_collected,        \* st.session_state["sqlite_collected"]
    base_query_data,         \* st.session_state.base_query_data
    diagnostics_collected,   \* st.session_state['diagnostics_collected']
    current_diagnosis,       \* st.session_state['current_diagnosis']
    current_mode,            \* st.session_state['current_mode']
    improved_sql,            \* st.session_state['improved_sql']
    improvement_history,     \* st.session_state.improvement_history
    current_iteration,       \* st.session_state.current_iteration
    baseline_selection,      \* st.session_state.baseline_selection
    improved_versions,       \* st.session_state.improved_versions
    measured,                \* what the last Run & Compare / recursive run ran and measured
    diagnostician,           \* the DatabaseDiagnostician the last handler constructed
    selected_version_idx,    \* st.session_state.selected_version_idx
    col_in,      \* collect_for_query: the statement, the mode and what the database does
    col_out,     \* collect_for_query: the returned dictionary and the times read from its logs
    req_in,      \* improve_query: the arguments of the call
    req_out,     \* improve_query: the parts of the request and the text sent
    ix_in,       \* test_index_recommendation: the arguments and what the database does
    ix_fs,       \* test_index_recommendation: the database files on disk
    ix_out,      \* test_index_recommendation: the returned results
    chat_history,    \* st.session_state.chat_history
    chat_call        \* the arguments of the last chat_respond call

vars == <<pc, enc_data, enc_xml, dx_in, dx_out, rt_diag, rt_block, rt_out, iq_raw, iq_out,
          dg_data, dg_op, dg_reply, dg_out,
          sqlite_collected, base_query_data, diagnostics_collected, current_diagnosis,
          current_mode, improved_sql, improvement_history, current_iteration,
          baseline_selection, improved_versions, measured, diagnostician,
          selected_version_idx, col_in, col_out, req_in, req_out, ix_in, ix_fs, ix_out,
          chat_history, chat_call>>

\* variable groups, and the value each group keeps in a specification that
\* does not exercise it
encVars == <<enc_data, enc_xml>>
dxVars == <<dx_in, dx_out>>
rtVars == <<rt_diag, rt_block, rt_out>>
iqVars == <<iq_raw, iq_out>>
dgVars == <<dg_data, dg_op, dg_reply, dg_out>>
trVars == <<sqlite_collected, base_query_data, diagnostics_collected, current_diagnosis,
            current_mode, improved_sql, improvement_history, current_iteration,
            baseline_selection, improved_versions, measured, diagnostician,
            selected_version_idx>>
colVars == <<col_in, col_out>>
reqVars == <<req_in, req_out>>
ixVars == <<ix_in, ix_fs, ix_out>>
chatVars == <<chat_history, chat_call>>
lateVars == <<colVars, reqVars, ixVars, chatVars>>
EncIdle == enc_data = <<>> /\ enc_xml = <<>>
DxIdle == dx_in = <<>> /\ dx_out = <<>>
RtIdle == rt_diag = <<>> /\ rt_block = <<>> /\ rt_out = <<>>
IqIdle == iq_raw = <<>> /\ iq_out = <<>>
DgIdle == dg_data = <<>> /\ dg_op = "" /\ dg_reply = <<>> /\ dg_out = <<>>
TrIdle ==
    /\ sqlite_collected = <<>> /\ base_query_data = <<>> /\ diagnostics_collected = FALSE
    /\ current_diagnosis = <<>> /\ current_mode = "" /\ improved_sql = <<>>
    /\ improvement_history = <<>> /\ current_iteration = 0
    /\ baseline_selection = "" /\ improved_versions = <<>> /\ measured = <<>>
    /\ diagnostician = <<>> /\ selected_version_idx = <<>>
ColIdle == col_in = <<>> /\ col_out = <<>>
ReqIdle == req_in = <<>> /\ req_out = <<>>
IxIdle == ix_in = <<>> /\ ix_fs = <<>> /\ ix_out = <<>>
ChatIdle == chat_history = <<>> /\ chat_call = <<>>
LateIdle == ColIdle /\ ReqIdle /\ IxIdle /\ ChatIdle
earlyVars == <<encVars, dxVars, rtVars, iqVars, dgVars, trVars>>

(***************************************************************************)
(* Bounds                                                                  *)
(***************************************************************************)
MaxTextLen == 2      \* longest field text of a bundle handed to the encoder
MaxReplyLen == 4     \* longest model reply enumerated atom by atom for the decoder
MaxItems == 2        \* most entries in one section of a typed Diagnosis
MaxDescLen == 2      \* longest description / comment text of a typed Diagnosis
MaxBlockLen == 3     \* longest fenced block enumerated atom by atom
MaxMs == 1           \* largest elapsed time the database reports
MaxRecords == 3      \* most records appended to the history in one session
MaxColMs == 5        \* largest elapsed time a single collection reports
MaxChat == 3         \* most messages the user sends in one chat before clearing it

(***************************************************************************)
(* Generic text helpers (Python str methods on atom sequences)             *)
(***************************************************************************)
Min(a, b) == IF a < b THEN a ELSE b
Max(a, b) == IF a > b THEN a ELSE b

\* s[a:b] for 0 <= a
Slice(s, a, b) ==
    LET hi == Min(b, Len(s)) IN
    IF a >= hi THEN <<>> ELSE SubSeq(s, a + 1, hi)

\* s[a:]
SliceFrom(s, a) == Slice(s, a, Len(s))

\* all texts over alphabet A of length at most n
SeqsUpTo(A, n) == UNION {[1..k -> A] : k \in 0..n}

\* str.isspace for one atom
IsSpace(c) == c \in {" ", "\n", "  ", "    "}

\* number of leading / trailing whitespace atoms
LeadWs(s) ==
    IF \A i \in 1..Len(s) : IsSpace(s[i]) THEN Len(s)
    ELSE (CHOOSE i \in 1..Len(s) : ~IsSpace(s[i]) /\ \A j \in 1..(i-1) : IsSpace(s[j])) - 1
TrailWs(s) ==
    IF \A i \in 1..Len(s) : IsSpace(s[i]) THEN Len(s)
    ELSE Len(s) - (CHOOSE i \in 1..Len(s) : ~IsSpace(s[i]) /\ \A j \in (i+1)..Len(s) : IsSpace(s[j]))

\* str.strip()
Strip(s) ==
    IF LeadWs(s) = Len(s) THEN <<>>
    ELSE SubSeq(s, LeadWs(s) + 1, Len(s) - TrailWs(s))

\* str.find(atom, start): index of the first occurrence at or after start, else -1
Find(s, a, start) ==
    IF \E i \in (start+1)..Len(s) : s[i] = a
    THEN (CHOOSE i \in (start+1)..Len(s) : s[i] = a /\ \A j \in (start+1)..(i-1) : s[j] # a) - 1
    ELSE -1

\* concatenation of a sequence of texts
RECURSIVE ConcatRange(_, _, _)
ConcatRange(ss, lo, hi) ==
    IF lo > hi THEN <<>>
    ELSE IF lo = hi THEN ss[lo]
    ELSE ConcatRange(ss, lo, (lo + hi) \div 2) \o ConcatRange(ss, (lo + hi) \div 2 + 1, hi)
Concat(ss) == ConcatRange(ss, 1, Len(ss))

(***************************************************************************)
(* Request encoder: xml_utils.create_input_xml                             *)
(***************************************************************************)
input_tags == <<"query", "explain", "logs", "schema", "stats", "config", "system">>
InputTagSet == {input_tags[i] : i \in 1..Len(input_tags)}
ExtraKeys == {"result_preview", "improvement_history"}

\* xml.etree _escape_cdata, one atom
EscapeCdataAtom(c) ==
    CASE c = "&" -> <<"&amp;">>
      [] c = "<" -> <<"&lt;">>
      [] c = ">" -> <<"&gt;">>
      [] OTHER   -> <<c>>
EscapeCdata(s) == Concat([i \in 1..Len(s) |-> EscapeCdataAtom(s[i])])

\* the text the loop assigns to the element of one tag
ElementText(data, tag) ==
    IF tag \in DOMAIN data /\ data[tag] # <<>> THEN Strip(data[tag]) ELSE <<>>

\* (mutant) an element without text is not written at all
SerializeElementDropEmpty(tag, text) ==
    IF text = <<>> THEN <<>>
    ELSE <<"<", tag, ">">> \o EscapeCdata(text) \o <<"<", "/", tag, ">">>

\* ET.tostring of one sub-element (short form when the text is empty)
SerializeElement(tag, text) ==
    IF text = <<>> THEN <<"<", tag, " ", "/", ">">>
    ELSE <<"<", tag, ">">> \o EscapeCdata(text) \o <<"<", "/", tag, ">">>

\* ET.tostring(root, encoding='unicode')
ET_tostring(data) ==
    <<"<", "database_info", ">">>
    \o Concat([i \in 1..Len(input_tags) |->
                 SerializeElement(input_tags[i], ElementText(data, input_tags[i]))])
    \o <<"<", "/", "database_info", ">">>

\* str.replace('><', '>\n<')
ReplaceGtLt(s) ==
    Concat([i \in 1..Len(s) |->
              IF s[i] = ">" /\ i < Len(s) /\ s[i + 1] = "<" THEN <<">", "\n">> ELSE <<s[i]>>])

XmlDeclaration == <<"<?xml version=\"1.0\" encoding=\"UTF-8\"?>", "\n">>

create_input_xml(data) == XmlDeclaration \o ReplaceGtLt(ET_tostring(data))

\* a bundle: some fields missing, some empty, the others carrying the text t
BundleTexts == SeqsUpTo({" ", "<", ">", "query"}, MaxTextLen)
MkBundle(present, empties, extra, t) ==
    [k \in present \cup extra |-> IF k \in empties THEN <<>> ELSE t]

EncInit ==
    /\ pc = "enc_ready"
    /\ \E present \in SUBSET InputTagSet, extra \in {{}, ExtraKeys}, t \in BundleTexts :
         \E empties \in SUBSET present :
            enc_data = MkBundle(present, empties, extra, t)
    /\ enc_xml = <<>>
    /\ DxIdle /\ RtIdle /\ IqIdle /\ DgIdle /\ TrIdle /\ LateIdle

Encode ==
    /\ pc = "enc_ready"
    /\ enc_xml' = create_input_xml(enc_data)
    /\ pc' = "enc_done"
    /\ UNCHANGED <<enc_data, dxVars, rtVars, iqVars, dgVars, trVars, lateVars>>

EncNext == Encode
SpecEnc == EncInit /\ [][EncNext]_vars

\* names of the sections of an encoded request, in order of appearance:
\* every start tag or empty-element tag that carries one of the seven names
RECURSIVE SectionsOf(_)
SectionsOf(xml) ==
    IF Len(xml) < 2 THEN <<>>
    ELSE IF xml[1] = "<" /\ xml[2] \in InputTagSet
         THEN <<xml[2]>> \o SectionsOf(Tail(xml))
         ELSE SectionsOf(Tail(xml))

\* the section opened at position i is either the empty form or is closed later
SectionWellFormed(xml, i) ==
    \/ /\ i + 4 <= Len(xml)
       /\ SubSeq(xml, i + 2, i + 4) = <<" ", "/", ">">>
    \/ /\ i + 2 <= Len(xml)
       /\ xml[i + 2] = ">"
       /\ \E j \in (i + 3)..(Len(xml) - 3) :
             SubSeq(xml, j, j + 3) = <<"<", "/", xml[i + 1], ">">>

\* C1: whatever fields of the bundle are missing, empty or whitespace-only and
\* whatever extra keys it carries, the encoded request holds exactly the seven
\* sections query, explain, logs, schema, stats, config, system, each once, in
\* that order, and each section is well-formed (empty form or closed).
C1_SevenSectionsInOrder ==
    pc = "enc_done" =>
        /\ SectionsOf(enc_xml) = input_tags
        /\ \A i \in 1..(Len(enc_xml) - 1) :
              (enc_xml[i] = "<" /\ enc_xml[i + 1] \in InputTagSet)
                  => SectionWellFormed(enc_xml, i)

\* a bundle with a missing field, an empty field, a field made of markup
\* characters and extra keys has been encoded
C1_Witness ==
    /\ pc = "enc_done"
    /\ "query" \notin DOMAIN enc_data
    /\ "logs" \in DOMAIN enc_data /\ enc_data["logs"] = <<>>
    /\ "schema" \in DOMAIN enc_data /\ enc_data["schema"] = <<"<", "query">>
    /\ "result_preview" \in DOMAIN enc_data


(***************************************************************************)
(* Diagnosis decoder: xml_utils.parse_diagnosis_xml                        *)
(*                                                                         *)
(* A model reply is a sequence of tokens.  A token is a start tag with its *)
(* attributes, an end tag, or one atom of character data.  The atoms       *)
(* "<![CDATA[" and "]]>" open and close a literal-data section, "&lt;" and *)
(* "&amp;" are entity references, "<" and "&" are the bare characters.     *)
(* An attribute is a pair <<name, value>>, the value a sequence of atoms.  *)
(***************************************************************************)
Ch(c) == [k |-> "ch", n |-> c, at |-> <<>>]
OpenTag(n, at) == [k |-> "open", n |-> n, at |-> at]
CloseTag(n) == [k |-> "close", n |-> n, at |-> <<>>]
CDataOpen == Ch("<![CDATA[")
CDataClose == Ch("]]>")

\* str.isspace / str.strip on token text
IsSpaceTok(t) == t.k = "ch" /\ IsSpace(t.n)
LeadWsTok(s) ==
    IF \A i \in 1..Len(s) : IsSpaceTok(s[i]) THEN Len(s)
    ELSE (CHOOSE i \in 1..Len(s) : ~IsSpaceTok(s[i]) /\ \A j \in 1..(i-1) : IsSpaceTok(s[j])) - 1
TrailWsTok(s) ==
    IF \A i \in 1..Len(s) : IsSpaceTok(s[i]) THEN Len(s)
    ELSE Len(s) - (CHOOSE i \in 1..Len(s) : ~IsSpaceTok(s[i]) /\ \A j \in (i+1)..Len(s) : IsSpaceTok(s[j]))
StripTok(s) ==
    IF LeadWsTok(s) = Len(s) THEN <<>>
    ELSE SubSeq(s, LeadWsTok(s) + 1, Len(s) - TrailWsTok(s))

\* ---- xml.etree.ElementTree.fromstring on a token sequence ----

\* expat: an attribute value may hold neither "<" nor a bare "&" nor the quote
AttrValueOk(v) == \A i \in 1..Len(v) : v[i] \notin {"<", "&", "\""}
\* expat: entity references of an attribute value are replaced
DecodeAtom(c) == CASE c = "&lt;" -> "<" [] c = "&amp;" -> "&" [] OTHER -> c
DecodeAttrValue(v) == [i \in 1..Len(v) |-> DecodeAtom(v[i])]
\* expat: well-formed start tag: no attribute twice, every value well-formed
StartTagOk(t) ==
    /\ \A i, j \in 1..Len(t.at) : i # j => t.at[i][1] # t.at[j][1]
    /\ \A i \in 1..Len(t.at) : AttrValueOk(t.at[i][2])
DecodeAttrs(at) == [i \in 1..Len(at) |-> <<at[i][1], DecodeAttrValue(at[i][2])>>]

\* an element under construction / a finished element
NewElement(t) == [tag |-> t.n, attrib |-> DecodeAttrs(t.at), text |-> <<>>, kids |-> <<>>]

\* character data reaches Element.text only before the first child
AppendText(stack, t) ==
    LET top == stack[Len(stack)] IN
    IF top.kids = <<>>
    THEN [stack EXCEPT ![Len(stack)].text = top.text \o <<t>>]
    ELSE stack

\* the parser state:
\*   ok      no error so far
\*   stack   open elements, outermost first
\*   cdata   inside a literal-data section
\*   root    <<the finished document element>> once it is closed, else <<>>
ParserStart == [ok |-> TRUE, stack |-> <<>>, cdata |-> FALSE, root |-> <<>>]
ParserError == [ok |-> FALSE, stack |-> <<>>, cdata |-> FALSE, root |-> <<>>]

\* the end tag t closes the innermost open element
CloseElement(st, t) ==
    LET top == st.stack[Len(st.stack)] IN
    IF top.tag # t.n THEN ParserError                       \* mismatched tag
    ELSE IF Len(st.stack) = 1
         THEN [st EXCEPT !.stack = <<>>, !.root = <<top>>]
         ELSE LET rest == SubSeq(st.stack, 1, Len(st.stack) - 1)
                  par  == rest[Len(rest)]
              IN [st EXCEPT !.stack = [rest EXCEPT ![Len(rest)].kids = par.kids \o <<top>>]]

\* the parser consumes one token
ParseStep(st, t) ==
    CASE st.cdata ->
           IF t = CDataClose THEN [st EXCEPT !.cdata = FALSE]
           ELSE [st EXCEPT !.stack = AppendText(st.stack, t)]
      [] ~st.cdata /\ st.stack = <<>> ->
           \* outside the document element: only white space, and one start tag
           IF IsSpaceTok(t) THEN st
           ELSE IF t.k = "open" /\ st.root = <<>> /\ StartTagOk(t)
                THEN [st EXCEPT !.stack = <<NewElement(t)>>]
                ELSE ParserError                            \* junk / syntax error
      [] ~st.cdata /\ st.stack # <<>> /\ t.k = "open" ->
           IF StartTagOk(t)
           THEN [st EXCEPT !.stack = Append(st.stack, NewElement(t))]
           ELSE ParserError                                 \* duplicate attribute / invalid token
      [] ~st.cdata /\ st.stack # <<>> /\ t.k = "close" -> CloseElement(st, t)
      [] ~st.cdata /\ st.stack # <<>> /\ t.k = "ch" ->
           IF t = CDataOpen THEN [st EXCEPT !.cdata = TRUE]
           ELSE IF t.n \in {"<", "&", "]]>"} THEN ParserError   \* invalid token
           ELSE [st EXCEPT !.stack = AppendText(st.stack, Ch(DecodeAtom(t.n)))]

RECURSIVE ParseFold(_, _, _)
ParseFold(doc, i, st) ==
    IF ~st.ok \/ i > Len(doc) THEN st
    ELSE ParseFold(doc, i + 1, ParseStep(st, doc[i]))

\* result: [ok |-> TRUE, root |-> element] or [ok |-> FALSE]
ParseFrom(doc) ==
    LET st == ParseFold(doc, 1, ParserStart) IN
    IF st.ok /\ st.root # <<>> /\ st.stack = <<>> /\ ~st.cdata
    THEN [ok |-> TRUE, root |-> st.root[1]]
    ELSE [ok |-> FALSE]                                     \* no element found / unclosed

ET_fromstring(doc) == ParseFrom(doc)

\* Element.find(name): <<first child of that name>> or <<>> for None
ElemFind(e, name) ==
    IF \E i \in 1..Len(e.kids) : e.kids[i].tag = name
    THEN <<e.kids[CHOOSE i \in 1..Len(e.kids) :
                     e.kids[i].tag = name /\ \A j \in 1..(i-1) : e.kids[j].tag # name]>>
    ELSE <<>>

\* Element.findall(name): the children of that name, in document order
RECURSIVE FilterByTag(_, _)
FilterByTag(kids, name) ==
    IF kids = <<>> THEN <<>>
    ELSE IF Head(kids).tag = name
         THEN <<Head(kids)>> \o FilterByTag(Tail(kids), name)
         ELSE FilterByTag(Tail(kids), name)
\* (mutant) the children of that name, the last one first
ElemFindAllReversed(e, name) ==
    LET found == FilterByTag(e.kids, name) IN
    [i \in 1..Len(found) |-> found[Len(found) + 1 - i]]

ElemFindAll(e, name) == FilterByTag(e.kids, name)

\* Element.get(name, default)
ElemGet(e, name, default) ==
    IF \E i \in 1..Len(e.attrib) : e.attrib[i][1] = name
    THEN e.attrib[CHOOSE i \in 1..Len(e.attrib) : e.attrib[i][1] = name][2]
    ELSE default

\* elem.text.strip() if elem.text else ""
ElemTextStripped(e) == StripTok(e.text)


\* ---- parse_diagnosis_xml ----
start_tag == OpenTag("diagnosis", <<>>)
end_tag == CloseTag("diagnosis")
ReasoningOpen == OpenTag("reasoning", <<>>)
ReasoningClose == CloseTag("reasoning")

\* record update / extension: g's keys override f's
Merge(f, g) == [k \in (DOMAIN f) \cup (DOMAIN g) |-> IF k \in DOMAIN g THEN g[k] ELSE f[k]]

\* the dictionary the function starts from
EmptyResult ==
    [reasoning |-> <<>>, bottlenecks |-> <<>>, root_causes |-> <<>>,
     recommendations |-> <<>>, comments |-> <<>>]

ExtractReasoning(root) ==
    LET el == ElemFind(root, "reasoning") IN
    IF el # <<>> /\ el[1].text # <<>> THEN StripTok(el[1].text) ELSE <<>>

ExtractBottlenecks(root) ==
    LET sec == ElemFind(root, "bottlenecks") IN
    IF sec = <<>> THEN <<>>
    ELSE LET els == ElemFindAll(sec[1], "bottleneck") IN
         [i \in 1..Len(els) |->
            [type        |-> ElemGet(els[i], "type", <<"Unknown">>),
             severity    |-> ElemGet(els[i], "severity", <<"Medium">>),
             description |-> ElemTextStripped(els[i])]]

ExtractRootCauses(root) ==
    LET sec == ElemFind(root, "root_causes") IN
    IF sec = <<>> THEN <<>>
    ELSE LET els == ElemFindAll(sec[1], "root_cause") IN
         [i \in 1..Len(els) |->
            [type        |-> ElemGet(els[i], "type", <<"Unknown">>),
             description |-> ElemTextStripped(els[i])]]

ExtractRecommendations(root) ==
    LET sec == ElemFind(root, "recommendations") IN
    IF sec = <<>> THEN <<>>
    ELSE LET els == ElemFindAll(sec[1], "recommendation") IN
         [i \in 1..Len(els) |->
            [type        |-> ElemGet(els[i], "type", <<"Unknown">>),
             priority    |-> ElemGet(els[i], "priority", <<"Medium">>),
             description |-> ElemTextStripped(els[i])]]

\* comments whose stripped text is empty are skipped
RECURSIVE NonEmptyTexts(_)
NonEmptyTexts(els) ==
    IF els = <<>> THEN <<>>
    ELSE IF ElemTextStripped(Head(els)) # <<>>
         THEN <<ElemTextStripped(Head(els))>> \o NonEmptyTexts(Tail(els))
         ELSE NonEmptyTexts(Tail(els))
ExtractComments(root) ==
    LET sec == ElemFind(root, "comments") IN
    IF sec = <<>> THEN <<>> ELSE NonEmptyTexts(ElemFindAll(sec[1], "comment"))

\* the try block: [exc |-> "none", result |-> dict] or [exc |-> exception class]
ParseTry(xml_response) ==
    LET start_idx == Find(xml_response, start_tag, 0)
        end_idx   == Find(xml_response, end_tag, 0)
    IN
    IF start_idx = -1 \/ end_idx = -1
    THEN [exc |-> "ValueError", msg |-> "Could not find <diagnosis> tags in response"]
    ELSE LET diagnosis_xml == Slice(xml_response, start_idx, end_idx + 1)
             parsed == ET_fromstring(diagnosis_xml)
         IN
         IF ~parsed.ok THEN [exc |-> "ParseError", msg |-> "ParseError"]
         ELSE [exc |-> "none",
               result |-> [reasoning       |-> ExtractReasoning(parsed.root),
                           bottlenecks     |-> ExtractBottlenecks(parsed.root),
                           root_causes     |-> ExtractRootCauses(parsed.root),
                           recommendations |-> ExtractRecommendations(parsed.root),
                           comments        |-> ExtractComments(parsed.root)]]

\* (mutant) the handler names the one exception the function raises itself
ParseHandlerCatchesValueErrorOnly(exc) == exc = "ValueError"

\* "except Exception": every exception class of the try block is handled
ParseHandlerCatches(exc) == exc \in {"ValueError", "ParseError"}

\* (mutant) the literal-data wrapper is left in the fallback reasoning
FallbackReasoningKeepWrapper(xml_response) ==
    LET reasoning_start == Find(xml_response, ReasoningOpen, 0)
        reasoning_end   == Find(xml_response, ReasoningClose, 0)
    IN
    IF reasoning_start # -1 /\ reasoning_end # -1
    THEN StripTok(Slice(xml_response, reasoning_start + 1, reasoning_end))
    ELSE <<>>

\* the except block: manual extraction of the reasoning text
FallbackReasoning(xml_response) ==
    LET reasoning_start == Find(xml_response, ReasoningOpen, 0)
        reasoning_end   == Find(xml_response, ReasoningClose, 0)
    IN
    IF reasoning_start # -1 /\ reasoning_end # -1
    THEN LET reasoning_text == StripTok(Slice(xml_response, reasoning_start + 1, reasoning_end))
         IN IF /\ Len(reasoning_text) >= 2
               /\ reasoning_text[1] = CDataOpen
               /\ reasoning_text[Len(reasoning_text)] = CDataClose
            THEN StripTok(SubSeq(reasoning_text, 2, Len(reasoning_text) - 1))
            ELSE reasoning_text
    ELSE <<>>

\* the outcome of a call: [raised |-> FALSE, value |-> dict] or
\* [raised |-> TRUE, exc |-> class] when an exception leaves the function
parse_diagnosis_xml(xml_response) ==
    LET t == ParseTry(xml_response) IN
    IF t.exc = "none" THEN [raised |-> FALSE, value |-> t.result]
    ELSE IF ParseHandlerCatches(t.exc)
         THEN [raised |-> FALSE,
               value  |-> Merge(EmptyResult,
                                [reasoning    |-> FallbackReasoning(xml_response),
                                 parse_error  |-> t.msg,
                                 raw_response |-> xml_response])]
         ELSE [raised |-> TRUE, exc |-> t.exc]


\* ---- replies handed to the decoder ----
\* a well-formed reply: wrapped reasoning, one bottleneck, two comments
SampleReplyA ==
    <<start_tag,
      ReasoningOpen, Ch("\n"), CDataOpen, Ch(" "), Ch("a"), CDataClose, ReasoningClose,
      OpenTag("bottlenecks", <<>>),
      OpenTag("bottleneck", << <<"type", <<"Idx">>>>, <<"severity", <<"High">>>> >>),
      Ch("a"), CloseTag("bottleneck"),
      CloseTag("bottlenecks"),
      OpenTag("comments", <<>>),
      OpenTag("comment", <<>>), Ch("a"), CloseTag("comment"),
      OpenTag("comment", <<>>), Ch(" "), CloseTag("comment"),
      CloseTag("comments"),
      end_tag>>

\* a well-formed reply: bare reasoning, attributes left out, an entity reference
SampleReplyB ==
    <<start_tag,
      ReasoningOpen, Ch(" "), Ch("a"), Ch(" "), ReasoningClose,
      OpenTag("root_causes", <<>>),
      OpenTag("root_cause", <<>>), Ch("a"), Ch("&lt;"), Ch("a"), CloseTag("root_cause"),
      CloseTag("root_causes"),
      OpenTag("recommendations", <<>>),
      OpenTag("recommendation", << <<"priority", <<"Low">>>> >>), Ch("a"), CloseTag("recommendation"),
      CloseTag("recommendations"),
      end_tag>>

SampleReplies == {SampleReplyA, SampleReplyB}

\* damaged replies: cut short, one token lost, two neighbours swapped
Truncated(d, n) == SubSeq(d, 1, n)
Dropped(d, i) == SubSeq(d, 1, i - 1) \o SubSeq(d, i + 1, Len(d))
Swapped(d, i) == SubSeq(d, 1, i - 1) \o <<d[i + 1], d[i]>> \o SubSeq(d, i + 2, Len(d))
DamagedReplies ==
    UNION {   {Truncated(d, n) : n \in 0..Len(d)}
         \cup {Dropped(d, i) : i \in 1..Len(d)}
         \cup {Swapped(d, i) : i \in 1..(Len(d) - 1)} : d \in SampleReplies}

\* text the model may put before the envelope
ReplyPrefixes == {<<>>, <<Ch("a"), Ch("\n")>>, <<end_tag>>}

\* short replies, atom by atom
ReplyAlphabet ==
    {start_tag, end_tag, ReasoningOpen, ReasoningClose, CDataOpen, CDataClose, Ch("a"), Ch(" ")}

\* well-formed envelopes whose four sections each list the same elements:
\* one element per text, in the order of texts
ItemTexts == {<<Ch("a")>>, <<Ch("b")>>, <<Ch(" ")>>, <<>>}
ListedSection(section, element, texts) ==
    <<OpenTag(section, <<>>)>>
    \o Concat([i \in 1..Len(texts) |->
                  <<OpenTag(element, <<>>)>> \o texts[i] \o <<CloseTag(element)>>])
    \o <<CloseTag(section)>>
ListedEnvelope(texts) ==
    <<start_tag>>
    \o ListedSection("bottlenecks", "bottleneck", texts)
    \o ListedSection("root_causes", "root_cause", texts)
    \o ListedSection("recommendations", "recommendation", texts)
    \o ListedSection("comments", "comment", texts)
    \o <<end_tag>>
ListedReplies == {ListedEnvelope(texts) : texts \in SeqsUpTo(ItemTexts, MaxItems)}

DxInputs ==
    SeqsUpTo(ReplyAlphabet, MaxReplyLen)
    \cup {pre \o d : pre \in ReplyPrefixes, d \in SampleReplies \cup DamagedReplies}
    \cup ListedReplies

DxInit ==
    /\ pc = "dx_ready"
    /\ dx_in \in DxInputs
    /\ dx_out = <<>>
    /\ EncIdle /\ RtIdle /\ IqIdle /\ DgIdle /\ TrIdle /\ LateIdle

ParseDiagnosis ==
    /\ pc = "dx_ready"
    /\ dx_out' = parse_diagnosis_xml(dx_in)
    /\ pc' = "dx_done"
    /\ UNCHANGED <<dx_in, encVars, rtVars, iqVars, dgVars, trVars, lateVars>>

DxNext == ParseDiagnosis
SpecDx == DxInit /\ [][DxNext]_vars

DiagnosisKeys == {"reasoning", "bottlenecks", "root_causes", "recommendations", "comments"}

\* C2: parse_diagnosis_xml is total: for every reply (empty, no envelope,
\* truncated envelope, end marker before start marker, swapped or unbalanced
\* tags) the call returns, without raising, a result that has reasoning,
\* bottlenecks, root_causes, recommendations and comments.
C2_DecoderTotal ==
    pc = "dx_done" =>
        /\ ~dx_out.raised
        /\ DiagnosisKeys \subseteq DOMAIN dx_out.value

\* a reply whose end marker comes before its start marker has been decoded,
\* and so has one whose envelope is present but malformed
C2_Witness ==
    /\ pc = "dx_done"
    /\ Find(dx_in, end_tag, 0) # -1
    /\ Find(dx_in, start_tag, 0) > Find(dx_in, end_tag, 0)
    /\ ~dx_out.raised

\* ---- what a failed parse must return ----
EnvelopeParses(xml) == ParseTry(xml).exc = "none"

\* the reply text from just after the first reasoning start marker up to the
\* first reasoning end marker; empty when a marker is absent
BetweenReasoningMarkers(xml) ==
    IF (\E i \in 1..Len(xml) : xml[i] = ReasoningOpen) /\ (\E i \in 1..Len(xml) : xml[i] = ReasoningClose)
    THEN LET a == CHOOSE i \in 1..Len(xml) :
                    xml[i] = ReasoningOpen /\ \A j \in 1..(i-1) : xml[j] # ReasoningOpen
             b == CHOOSE i \in 1..Len(xml) :
                    xml[i] = ReasoningClose /\ \A j \in 1..(i-1) : xml[j] # ReasoningClose
         IN IF a < b THEN SubSeq(xml, a + 1, b - 1) ELSE <<>>
    ELSE <<>>

HasWrapper(t) == Len(t) >= 2 /\ t[1] = CDataOpen /\ t[Len(t)] = CDataClose
Unwrap(t) == IF HasWrapper(t) THEN SubSeq(t, 2, Len(t) - 1) ELSE t

FailedParseCommon ==
    /\ ~dx_out.raised
    /\ "parse_error" \in DOMAIN dx_out.value
    /\ "raw_response" \in DOMAIN dx_out.value
    /\ dx_out.value.raw_response = dx_in
    /\ dx_out.value.bottlenecks = <<>>
    /\ dx_out.value.root_causes = <<>>
    /\ dx_out.value.recommendations = <<>>
    /\ dx_out.value.comments = <<>>

\* C3 as stated: on a failed parse the reasoning is the text between the
\* reasoning markers with the literal-data wrapper removed, as it stands.
C3_Original ==
    pc = "dx_done" =>
        IF EnvelopeParses(dx_in)
        THEN ~dx_out.raised /\ "parse_error" \notin DOMAIN dx_out.value
        ELSE /\ FailedParseCommon
             /\ dx_out.value.reasoning = Unwrap(BetweenReasoningMarkers(dx_in))

\* C3 (amended): whenever the envelope cannot be parsed (markers absent or
\* content malformed) the result has parse_error set, raw_response equal to
\* the full input, the four sequences empty, and reasoning equal to the text
\* between the reasoning markers trimmed of surrounding white space, with
\* the literal-data wrapper removed and the remainder trimmed again (empty if
\* a marker is absent); when the envelope parses, parse_error is not set.
C3_FailSoft ==
    pc = "dx_done" =>
        IF EnvelopeParses(dx_in)
        THEN ~dx_out.raised /\ "parse_error" \notin DOMAIN dx_out.value
        ELSE /\ FailedParseCommon
             /\ LET trimmed == StripTok(BetweenReasoningMarkers(dx_in)) IN
                dx_out.value.reasoning =
                    IF HasWrapper(trimmed) THEN StripTok(Unwrap(trimmed)) ELSE trimmed

\* a malformed envelope whose reasoning section is wrapped has been decoded
\* and the reasoning text was recovered
C3_Witness ==
    /\ pc = "dx_done"
    /\ Find(dx_in, start_tag, 0) # -1
    /\ ~EnvelopeParses(dx_in)
    /\ HasWrapper(StripTok(BetweenReasoningMarkers(dx_in)))
    /\ ~dx_out.raised
    /\ dx_out.value.reasoning # <<>>


(***************************************************************************)
(* Prior-diagnosis reconstruction: the elif branch of                      *)
(* DatabaseDiagnostician.improve_query (gemini_client.py 137-165)          *)
(***************************************************************************)
\* an indentation of two or four blanks, one atom
Spaces(n) == <<Ch(IF n = 2 THEN "  " ELSE "    ")>>
Newline == <<Ch("\n")>>

\* "\n".join(lines)
RECURSIVE JoinLines(_)
JoinLines(lines) ==
    IF lines = <<>> THEN <<>>
    ELSE IF Len(lines) = 1 THEN lines[1]
    ELSE lines[1] \o Newline \o JoinLines(Tail(lines))

\* an attribute value is pasted into the tag as it is
RawAttrChars(v) == v

ReasoningLines(d) ==
    IF "reasoning" \in DOMAIN d /\ d.reasoning # <<>>
    THEN << Spaces(2) \o <<ReasoningOpen>> \o Newline \o Spaces(4) \o <<CDataOpen>> \o Newline
            \o d.reasoning
            \o Newline \o Spaces(4) \o <<CDataClose>> \o Newline \o Spaces(2) \o <<ReasoningClose>> >>
    ELSE <<>>

BottleneckLines(d) ==
    IF "bottlenecks" \in DOMAIN d /\ d.bottlenecks # <<>>
    THEN << Spaces(2) \o <<OpenTag("bottlenecks", <<>>)>> >>
         \o [i \in 1..Len(d.bottlenecks) |->
               Spaces(4)
               \o <<OpenTag("bottleneck",
                            << <<"type", RawAttrChars(d.bottlenecks[i].type)>>,
                               <<"severity", RawAttrChars(d.bottlenecks[i].severity)>> >>)>>
               \o d.bottlenecks[i].description
               \o <<CloseTag("bottleneck")>>]
         \o << Spaces(2) \o <<CloseTag("bottlenecks")>> >>
    ELSE <<>>

RootCauseLines(d) ==
    IF "root_causes" \in DOMAIN d /\ d.root_causes # <<>>
    THEN << Spaces(2) \o <<OpenTag("root_causes", <<>>)>> >>
         \o [i \in 1..Len(d.root_causes) |->
               Spaces(4)
               \o <<OpenTag("root_cause", << <<"type", RawAttrChars(d.root_causes[i].type)>> >>)>>
               \o d.root_causes[i].description
               \o <<CloseTag("root_cause")>>]
         \o << Spaces(2) \o <<CloseTag("root_causes")>> >>
    ELSE <<>>

RecommendationLines(d) ==
    IF "recommendations" \in DOMAIN d /\ d.recommendations # <<>>
    THEN << Spaces(2) \o <<OpenTag("recommendations", <<>>)>> >>
         \o [i \in 1..Len(d.recommendations) |->
               Spaces(4)
               \o <<OpenTag("recommendation",
                            << <<"type", RawAttrChars(d.recommendations[i].type)>>,
                               <<"priority", RawAttrChars(d.recommendations[i].priority)>> >>)>>
               \o d.recommendations[i].description
               \o <<CloseTag("recommendation")>>]
         \o << Spaces(2) \o <<CloseTag("recommendations")>> >>
    ELSE <<>>

CommentLines(d) ==
    IF "comments" \in DOMAIN d /\ d.comments # <<>>
    THEN << Spaces(2) \o <<OpenTag("comments", <<>>)>> >>
         \o [i \in 1..Len(d.comments) |->
               Spaces(4) \o <<OpenTag("comment", <<>>)>> \o d.comments[i] \o <<CloseTag("comment")>>]
         \o << Spaces(2) \o <<CloseTag("comments")>> >>
    ELSE <<>>

\* "\n".join(diag_lines)
ReconstructDiagnosis(d) ==
    JoinLines(<< <<start_tag>> >>
              \o ReasoningLines(d) \o BottleneckLines(d) \o RootCauseLines(d)
              \o RecommendationLines(d) \o CommentLines(d)
              \o << <<end_tag>> >>)

\* ---- typed Diagnoses, as the decoder produces them ----
\* description texts: no white space at either end (the decoder strips it)
DescAlphabet == {Ch("a"), Ch(" "), Ch("<")}
DescTexts == {t \in SeqsUpTo(DescAlphabet, MaxDescLen) : StripTok(t) = t}
AttrValues == {<<"Idx">>, <<"a", "<", "b">>}

\* a section of n entries: odd entries carry (desc, attr), even ones a fixed text
EntryDesc(i, desc) == IF i % 2 = 1 THEN desc ELSE <<Ch("a"), Ch("a")>>
EntryAttr(i, attr) == IF i % 2 = 1 THEN attr ELSE <<"High">>

MkDiagnosis(nb, nrc, nrec, nc, desc, attr, reasoning) ==
    [reasoning       |-> reasoning,
     bottlenecks     |-> [i \in 1..nb |-> [type |-> EntryAttr(i, attr), severity |-> EntryAttr(i + 1, attr),
                                           description |-> EntryDesc(i, desc)]],
     root_causes     |-> [i \in 1..nrc |-> [type |-> EntryAttr(i, attr), description |-> EntryDesc(i, desc)]],
     recommendations |-> [i \in 1..nrec |-> [type |-> EntryAttr(i + 1, attr), priority |-> EntryAttr(i, attr),
                                             description |-> EntryDesc(i, desc)]],
     comments        |-> [i \in 1..nc |-> EntryDesc(i, desc \o <<Ch("a")>>)]]

RtInit ==
    /\ pc = "rt_ready"
    /\ \E nb, nrc, nrec, nc \in 0..MaxItems, desc \in DescTexts, attr \in AttrValues,
          reasoning \in {<<>>, <<Ch("a"), Ch(" "), Ch("a")>>} :
         rt_diag = MkDiagnosis(nb, nrc, nrec, nc, desc, attr, reasoning)
    /\ rt_block = <<>>
    /\ rt_out = <<>>
    /\ EncIdle /\ DxIdle /\ IqIdle /\ DgIdle /\ TrIdle /\ LateIdle

Rebuild ==
    /\ pc = "rt_ready"
    /\ rt_block' = ReconstructDiagnosis(rt_diag)
    /\ pc' = "rt_built"
    /\ UNCHANGED <<rt_diag, rt_out, encVars, dxVars, iqVars, dgVars, trVars, lateVars>>

Redecode ==
    /\ pc = "rt_built"
    /\ rt_out' = parse_diagnosis_xml(rt_block)
    /\ pc' = "rt_done"
    /\ UNCHANGED <<rt_diag, rt_block, encVars, dxVars, iqVars, dgVars, trVars, lateVars>>

RtNext == Rebuild \/ Redecode
SpecRt == RtInit /\ [][RtNext]_vars

\* C7: rebuilding the prior-diagnosis block from a typed Diagnosis and
\* decoding it yields the same bottlenecks, root_causes, recommendations and
\* comments (order and type/severity/priority preserved) and no parse_error.
C7_RoundTrip ==
    pc = "rt_done" =>
        /\ ~rt_out.raised
        /\ "parse_error" \notin DOMAIN rt_out.value
        /\ rt_out.value.bottlenecks = rt_diag.bottlenecks
        /\ rt_out.value.root_causes = rt_diag.root_causes
        /\ rt_out.value.recommendations = rt_diag.recommendations
        /\ rt_out.value.comments = rt_diag.comments

\* a Diagnosis none of whose texts or attribute values holds a markup
\* character does survive the round trip
RoundTripOnPlainText ==
    (/\ pc = "rt_done"
     /\ \A i \in 1..Len(rt_block) :
           /\ rt_block[i] # Ch("<")
           /\ rt_block[i].k = "open" => \A a \in 1..Len(rt_block[i].at) : AttrValueOk(rt_block[i].at[a][2]))
    => C7_RoundTrip


(***************************************************************************)
(* Improved-query decoder: the reply handling of                           *)
(* DatabaseDiagnostician.improve_query (gemini_client.py 212-265)          *)
(*                                                                         *)
(* Atoms of a reply: "select" (the keyword, in any letter case), "x" (any  *)
(* other word), " ", "\n", ";", "--", "/*", "*/", "FENCE" (three          *)
(* backquotes), "FENCE_sql" (three backquotes and the tag sql), and the    *)
(* marker "-- rationale:".                                                 *)
(***************************************************************************)
IsFence(a) == a \in {"FENCE", "FENCE_sql"}
IsDashDash(a) == a \in {"--", "-- rationale:"}
\* the atom ends / starts with a word character (for \b)
EndsWithWord(a) == a \in {"select", "x", "FENCE_sql"}
StartsWithWord(a) == a \in {"select", "x"}

\* raw.find of the three backquotes, from start
FindFence(raw, start) ==
    IF \E i \in (start+1)..Len(raw) : IsFence(raw[i])
    THEN (CHOOSE i \in (start+1)..Len(raw) :
            IsFence(raw[i]) /\ \A j \in (start+1)..(i-1) : ~IsFence(raw[j])) - 1
    ELSE -1

\* the rationale: from the marker to the next fence
ExtractRationale(raw) ==
    IF Find(raw, "-- rationale:", 0) # -1
    THEN LET rationale_start == Find(raw, "-- rationale:", 0) + 1
             rationale_end   == FindFence(raw, rationale_start)
         IN IF rationale_end # -1
            THEN Strip(Slice(raw, rationale_start, rationale_end))
            ELSE <<>>
    ELSE <<>>

\* the code block: tagged fence preferred, generic fence as fallback
ExtractCodeBlock(raw) ==
    LET tagged == Find(raw, "FENCE_sql", 0)
        fence  == IF tagged = -1 THEN FindFence(raw, 0) ELSE tagged
    IN IF fence = -1 THEN <<>>
       ELSE LET code_start == Find(raw, "\n", fence) + 1
                code_end   == FindFence(raw, code_start)
            IN IF code_end # -1 THEN Strip(Slice(raw, code_start, code_end)) ELSE <<>>

\* re.sub(r"/\*.*?\*/", " ", txt, flags=re.DOTALL)
RECURSIVE RemoveBlockComments(_)
RemoveBlockComments(txt) ==
    IF txt = <<>> THEN <<>>
    ELSE IF txt[1] = "/*" /\ Find(txt, "*/", 1) # -1
         THEN <<" ">> \o RemoveBlockComments(SliceFrom(txt, Find(txt, "*/", 1) + 1))
         ELSE <<txt[1]>> \o RemoveBlockComments(Tail(txt))

\* ^ with re.MULTILINE at 0-based position i
AtLineStart(txt, i) == i = 0 \/ txt[i] = "\n"

\* end (exclusive, 0-based) of the match of ^\s*--.*$ at position i, or -1
LineCommentMatchEnd(txt, i) ==
    IF ~AtLineStart(txt, i) THEN -1
    ELSE LET ws == LeadWs(SliceFrom(txt, i))
             d  == i + ws
         IN IF d < Len(txt) /\ IsDashDash(txt[d + 1])
            THEN IF Find(txt, "\n", d + 1) = -1 THEN Len(txt) ELSE Find(txt, "\n", d + 1)
            ELSE -1

\* re.sub(r"^\s*--.*$", "", txt, flags=re.MULTILINE), scanning from position i
RECURSIVE RemoveLineComments(_, _)
RemoveLineComments(txt, i) ==
    IF i >= Len(txt) THEN <<>>
    ELSE IF LineCommentMatchEnd(txt, i) # -1
         THEN RemoveLineComments(txt, LineCommentMatchEnd(txt, i))
         ELSE <<txt[i + 1]>> \o RemoveLineComments(txt, i + 1)

\* \bselect\b matches at 1-based index i
SelectWordAt(txt, i) ==
    /\ txt[i] = "select"
    /\ (i = 1 \/ ~EndsWithWord(txt[i - 1]))
    /\ (i = Len(txt) \/ ~StartsWithWord(txt[i + 1]))

\* re.search(r"\bselect\b", txt): 0-based start of the first match, or -1
SearchSelect(txt) ==
    IF \E i \in 1..Len(txt) : SelectWordAt(txt, i)
    THEN (CHOOSE i \in 1..Len(txt) :
            SelectWordAt(txt, i) /\ \A j \in 1..(i-1) : ~SelectWordAt(txt, j)) - 1
    ELSE -1

\* (mutant) the statement is cut before the terminator, not after it
TruncateBeforeSemicolon(sub) ==
    IF Find(sub, ";", 0) # -1 THEN Slice(sub, 0, Find(sub, ";", 0)) ELSE sub

\* sub[:sc+1] when a semicolon is present
TruncateAtSemicolon(sub) ==
    IF Find(sub, ";", 0) # -1 THEN Slice(sub, 0, Find(sub, ";", 0) + 1) ELSE sub

\* the text after both comment substitutions
StripComments(sql_text) == RemoveLineComments(RemoveBlockComments(Strip(sql_text)), 0)

_extract_first_select(sql_text) ==
    IF sql_text = <<>> THEN <<>>
    ELSE LET txt == StripComments(sql_text)
             m   == SearchSelect(txt)
         IN IF m = -1 THEN <<>>
            ELSE Strip(TruncateAtSemicolon(SliceFrom(txt, m)))

\* (mutant) re.search in place of re.match: the keyword anywhere in the text
ContainsSelect(sql) == SearchSelect(sql) # -1

\* re.match(r"^\s*select\b", improved_sql)
StartsWithSelect(sql) ==
    LET ws == LeadWs(sql) IN
    /\ ws < Len(sql)
    /\ sql[ws + 1] = "select"
    /\ (ws + 1 = Len(sql) \/ ~StartsWithWord(sql[ws + 2]))

\* the statement returned for a code block
SanitizeCandidate(block) ==
    LET cleaned      == _extract_first_select(block)
        sql_text == IF cleaned # <<>> THEN cleaned ELSE block
    IN IF sql_text # <<>> /\ ~StartsWithSelect(sql_text) THEN <<>> ELSE sql_text

\* the dictionary improve_query returns for the reply raw
DecodeImprovedQuery(raw) ==
    [improved_query |-> SanitizeCandidate(ExtractCodeBlock(raw)),
     rationale      |-> ExtractRationale(raw),
     raw_response   |-> raw]

\* ---- replies handed to improve_query ----
BlockAlphabet == {"select", "x", " ", "\n", ";", "--", "/*", "*/"}
SampleBlocks ==
    { <<"select", " ", "x", " ", "--", " ", "x", "\n", "x", ";">>,
      <<"x", " ", "x", ";", "\n", "select", " ", "x", ";", " ", "x", ";">>,
      <<"/*", " ", "select", ";", "*/", "\n", "  ", "--", "x", "\n", "select", " ", "/*", ";", "*/", "x">>,
      <<"x", " ", "x", " ", "x", ";">> }
Blocks == SeqsUpTo(BlockAlphabet, MaxBlockLen) \cup SampleBlocks
ReplyLeads == { <<>>, <<"-- rationale:", " ", "x", "\n">>, <<"select", " ", "x", ";", "\n">> }
OpeningFences == { <<"FENCE_sql", "\n">>, <<"FENCE", "\n">>, <<"FENCE_sql">> }
ClosingFences == { <<"FENCE">>, <<"\n", "FENCE", "\n">>, <<>> }

IqInputs ==
    {lead \o open \o block \o close :
        lead \in ReplyLeads, open \in OpeningFences, block \in Blocks, close \in ClosingFences}
    \cup {lead \o block : lead \in ReplyLeads, block \in SampleBlocks}

IqInit ==
    /\ pc = "iq_ready"
    /\ iq_raw \in IqInputs
    /\ iq_out = <<>>
    /\ EncIdle /\ DxIdle /\ RtIdle /\ DgIdle /\ TrIdle /\ LateIdle

DecodeReply ==
    /\ pc = "iq_ready"
    /\ iq_out' = DecodeImprovedQuery(iq_raw)
    /\ pc' = "iq_done"
    /\ UNCHANGED <<iq_raw, encVars, dxVars, rtVars, dgVars, trVars, lateVars>>

IqNext == DecodeReply
SpecIq == IqInit /\ [][IqNext]_vars


Count(s, a) == Cardinality({i \in 1..Len(s) : s[i] = a})
Occurs(s, a) == \E i \in 1..Len(s) : s[i] = a

\* C4: for every model reply the improved_query is empty or begins with the
\* SELECT keyword (as a whole word); a reply whose fenced block holds no
\* read statement (CREATE INDEX ... instead) yields an empty improved_query.
C4_EmptyOrSelect ==
    pc = "iq_done" =>
        LET q == iq_out.improved_query IN
        /\ q = <<>> \/ (q[1] = "select" /\ (Len(q) = 1 \/ ~StartsWithWord(q[2])))
        /\ ~Occurs(ExtractCodeBlock(iq_raw), "select") => q = <<>>

\* a reply whose fenced block is a statement without the keyword was decoded
\* to an empty improved_query
C4_Witness ==
    /\ pc = "iq_done"
    /\ Occurs(iq_raw, "FENCE_sql")
    /\ ExtractCodeBlock(iq_raw) = <<"x", " ", "x", " ", "x", ";">>
    /\ iq_out.improved_query = <<>>

\* the first statement of a block: up to and including its first terminator
FirstStatement(block) ==
    IF Occurs(block, ";")
    THEN SubSeq(block, 1, CHOOSE i \in 1..Len(block) : block[i] = ";" /\ \A j \in 1..(i-1) : block[j] # ";")
    ELSE block

\* C5 as stated: when the block holds several statements the result is the
\* first statement of the block, so it is what the first statement alone
\* would give and nothing after the block's first terminator shows in it.
C5_Original ==
    pc = "iq_done" =>
        LET block == ExtractCodeBlock(iq_raw)
            q     == iq_out.improved_query
        IN (Count(block, ";") >= 2 /\ q # <<>>)
               => q = SanitizeCandidate(FirstStatement(block))

\* C5 (amended): a non-empty improved_query is the first SELECT statement of
\* the comment-stripped block: it is the run of that text that starts at the
\* first stand-alone SELECT keyword and ends with the first terminator after
\* the keyword (or, with no terminator after the keyword, at the end of the
\* text, trailing white space dropped); it holds at most one terminator, as
\* its last character.
C5_FirstSelectStatement ==
    pc = "iq_done" =>
        LET txt == StripComments(ExtractCodeBlock(iq_raw))
            q   == iq_out.improved_query
        IN q # <<>> =>
            /\ Count(q, ";") <= 1
            /\ Count(q, ";") = 1 => q[Len(q)] = ";"
            /\ \E i \in 1..Len(txt) :
                  /\ SelectWordAt(txt, i)
                  /\ \A j \in 1..(i-1) : ~SelectWordAt(txt, j)
                  /\ i + Len(q) - 1 <= Len(txt)
                  /\ SubSeq(txt, i, i + Len(q) - 1) = q
                  /\ Count(q, ";") = 0 =>
                        \A k \in (i + Len(q))..Len(txt) : IsSpace(txt[k])

\* a block of two statements, the first of them not a SELECT, was decoded
\* to its SELECT statement
C5_Witness ==
    /\ pc = "iq_done"
    /\ ExtractCodeBlock(iq_raw) =
          <<"x", " ", "x", ";", "\n", "select", " ", "x", ";", " ", "x", ";">>
    /\ iq_out.improved_query = <<"select", " ", "x", ";">>

\* a block comment: an opening mark with a closing mark after it
HasBlockComment(q) == \E i, j \in 1..Len(q) : i < j /\ q[i] = "/*" /\ q[j] = "*/"
\* a line comment: the mark, at the start of a line or after SQL text
HasLineComment(q) == \E i \in 1..Len(q) : IsDashDash(q[i])

\* C6: a non-empty improved_query holds no block comment and no line
\* comment, whole-line or trailing.
C6_CommentFree ==
    pc = "iq_done" =>
        LET q == iq_out.improved_query IN
        q # <<>> => ~HasBlockComment(q) /\ ~HasLineComment(q)


(***************************************************************************)
(* DatabaseDiagnostician: the three operations around send_message         *)
(***************************************************************************)
\* what send_message does: it raises, or it returns a response with a text
Failure(e) == [fails |-> TRUE, error |-> e]
Reply(t) == [fails |-> FALSE, text |-> t]
TransportErrors == {"timeout", "quota exceeded"}

\* the dictionary of the except block of analyze_performance
AnalysisFailure(db_data, e) ==
    [reasoning       |-> <<"Error occurred during analysis: ", e>>,
     root_causes     |-> <<>>,
     recommendations |-> <<>>,
     comments        |-> <<>>,
     error           |-> <<e>>,
     raw_input       |-> db_data,
     raw_response    |-> <<>>]

\* analyze_performance, its model call behaving as outcome says
analyze_performance(db_data, outcome) ==
    LET xml_input == create_input_xml(db_data) IN
    IF outcome.fails
    THEN [raised |-> FALSE, value |-> AnalysisFailure(db_data, outcome.error)]
    ELSE LET raw_response == outcome.text
             diagnosis    == parse_diagnosis_xml(raw_response)
         IN IF diagnosis.raised
            THEN [raised |-> FALSE, value |-> AnalysisFailure(db_data, diagnosis.exc)]
            ELSE [raised |-> FALSE,
                  value  |-> Merge(diagnosis.value,
                                   [raw_input |-> xml_input, raw_response |-> raw_response])]

\* improve_query: the whole body is inside try / except Exception
improve_query(db_data, outcome) ==
    IF outcome.fails
    THEN [raised |-> FALSE,
          value  |-> [improved_query |-> <<>>,
                      rationale      |-> <<"error: ", outcome.error>>,
                      raw_response   |-> <<>>]]
    ELSE [raised |-> FALSE, value |-> DecodeImprovedQuery(outcome.text)]

\* a chat reply is a text over the atoms "<response>", "</response>", " ", "x"
ResponseOpen == "<response>"
ResponseClose == "</response>"

\* xml_utils.extract_response_from_text: the text between the response markers,
\* or the raw text without marker atoms when the markers are absent
extract_response_from_text(raw) ==
    LET start_idx == Find(raw, ResponseOpen, 0)
        end_idx   == Find(raw, ResponseClose, 0)
    IN IF start_idx # -1 /\ end_idx # -1 /\ start_idx < end_idx
       THEN Strip(Slice(raw, start_idx + 1, end_idx))
       ELSE Strip(SelectSeq(raw, LAMBDA a : a \notin {ResponseOpen, ResponseClose}))

\* chat_respond: no handler around send_message
chat_respond(history, user_message, outcome) ==
    IF outcome.fails
    THEN [raised |-> TRUE, exc |-> outcome.error]
    ELSE [raised |-> FALSE, value |-> extract_response_from_text(outcome.text)]

\* ---- calls made on a diagnostician ----
DgBundles ==
    {MkBundle(present, {}, {}, <<"query">>) : present \in {InputTagSet, {"query", "logs"}, {}}}
AnalysisReplies == SampleReplies \cup DamagedReplies
ImproveReplies ==
    {lead \o <<"FENCE_sql", "\n">> \o block \o <<"\n", "FENCE">> :
        lead \in ReplyLeads, block \in SampleBlocks \cup {<<>>, <<"select", " ", "x", ";">>}}
ChatReplies ==
    { <<"<response>", " ", "x", " ", "</response>">>, <<"x", " ", "x">>,
      <<"</response>", "x", "<response>">>, <<"<response>", "x">>, <<>> }
ChatHistories == { <<>>, << [user |-> <<"x">>, response |-> <<"x">>] >> }

DgInit ==
    /\ pc = "dg_ready"
    /\ dg_data \in DgBundles
    /\ dg_op = ""
    /\ dg_reply = <<>>
    /\ dg_out = <<>>
    /\ EncIdle /\ DxIdle /\ RtIdle /\ IqIdle /\ TrIdle /\ LateIdle

AnalyzePerformance ==
    /\ pc = "dg_ready"
    /\ \E outcome \in {Failure(e) : e \in TransportErrors} \cup {Reply(t) : t \in AnalysisReplies} :
          /\ dg_reply' = outcome
          /\ dg_out' = analyze_performance(dg_data, outcome)
    /\ dg_op' = "analyze_performance"
    /\ pc' = "dg_done"
    /\ UNCHANGED <<dg_data, encVars, dxVars, rtVars, iqVars, trVars, lateVars>>

ImproveQuery ==
    /\ pc = "dg_ready"
    /\ \E outcome \in {Failure(e) : e \in TransportErrors} \cup {Reply(t) : t \in ImproveReplies} :
          /\ dg_reply' = outcome
          /\ dg_out' = improve_query(dg_data, outcome)
    /\ dg_op' = "improve_query"
    /\ pc' = "dg_done"
    /\ UNCHANGED <<dg_data, encVars, dxVars, rtVars, iqVars, trVars, lateVars>>

ChatRespond ==
    /\ pc = "dg_ready"
    /\ \E outcome \in {Failure(e) : e \in TransportErrors} \cup {Reply(t) : t \in ChatReplies},
          history \in ChatHistories :
          /\ dg_reply' = outcome
          /\ dg_out' = chat_respond(history, <<"x">>, outcome)
    /\ dg_op' = "chat_respond"
    /\ pc' = "dg_done"
    /\ UNCHANGED <<dg_data, encVars, dxVars, rtVars, iqVars, trVars, lateVars>>

DgNext == AnalyzePerformance \/ ImproveQuery \/ ChatRespond
SpecDg == DgInit /\ [][DgNext]_vars

DiagnosisSequences == {"bottlenecks", "root_causes", "recommendations", "comments"}

\* C8: when the model call of analyze_performance fails, the call returns
\* without raising a Diagnosis whose reasoning carries the error text, whose
\* bottlenecks, root_causes, recommendations and comments are all present
\* and empty, and whose raw_response is empty.
C8_AnalysisFailureResult ==
    (pc = "dg_done" /\ dg_op = "analyze_performance" /\ dg_reply.fails) =>
        /\ ~dg_out.raised
        /\ Occurs(dg_out.value.reasoning, dg_reply.error)
        /\ \A k \in DiagnosisSequences :
              k \in DOMAIN dg_out.value /\ dg_out.value[k] = <<>>
        /\ dg_out.value.raw_response = <<>>

\* C9: whichever operation is called, a failing model call does not leave
\* the operation as an exception: the operation returns a result, and for
\* improve_query that result has an empty improved_query and a rationale
\* carrying the error text.
C9_NoTransportFailurePropagates ==
    (pc = "dg_done" /\ dg_reply.fails) =>
        /\ ~dg_out.raised
        /\ dg_op = "improve_query" =>
              /\ dg_out.value.improved_query = <<>>
              /\ Occurs(dg_out.value.rationale, dg_reply.error)


(***************************************************************************)
(* SqliteCollector.collect_for_query and the timing read back from logs    *)
(***************************************************************************)
\* Python None, and a value that is not None
None == <<>>
Some(x) == <<x>>

\* numbers are written in a text as one atom each
Digits == <<"0", "1", "2", "3", "4", "5">>
NumText(n) == Digits[n + 1]
IsNumber(a) == \E i \in 1..Len(Digits) : Digits[i] = a
\* float(m.group(1))
ParseFloat(a) == (CHOOSE i \in 1..Len(Digits) : Digits[i] = a) - 1

\* "\n".join(lines) on plain text
RECURSIVE JoinText(_)
JoinText(lines) ==
    IF lines = <<>> THEN <<>>
    ELSE IF Len(lines) = 1 THEN lines[1]
    ELSE lines[1] \o <<"\n">> \o JoinText(Tail(lines))

\* what the database does with a statement: it runs in ms milliseconds, or
\* it is refused (by EXPLAIN QUERY PLAN and by execute alike) with an error
DbRuns(ms) == [ok |-> TRUE, ms |-> ms]
DbFails(ms, e) == [ok |-> FALSE, ms |-> ms, error |-> e]
DbErrors ==
    { <<"no such table: t">>,
      <<"no such column:", " ", "elapsed", "1", "ms">> }   \* the column elapsed1ms
DbOutcomes == {DbRuns(ms) : ms \in 0..MaxMs} \cup {DbFails(0, e) : e \in DbErrors}

\* the log lines collect_for_query appends
CollectorLogs(estimated_plan_only, db) ==
    << IF db.ok THEN <<"Query plan collected successfully">>
                ELSE <<"Error getting query plan:", " ">> \o db.error >>
    \o (IF estimated_plan_only THEN <<>>
        ELSE << <<"Executing query with timing...">> >>
             \o (IF db.ok
                 THEN << <<"Execution elapsed:", " ", NumText(db.ms), " ", "ms">>,
                         <<"Rows previewed:", " ", "1">> >>
                 ELSE << <<"Query failed after", " ", NumText(db.ms), " ", "ms", ":", " ">>
                         \o db.error >>))

collect_for_query(sql, estimated_plan_only, db) ==
    [query          |-> sql,
     explain        |-> IF db.ok THEN <<"plan">> ELSE <<>>,
     logs           |-> Strip(JoinText(CollectorLogs(estimated_plan_only, db))),
     schema         |-> <<"schema">>,
     stats          |-> <<"stats">>,
     config         |-> <<"config">>,
     system         |-> <<"system">>,
     result_preview |-> IF ~estimated_plan_only /\ db.ok THEN <<"rows">> ELSE <<>>]

\* position of the first atom at or after i that is not white space
SkipWs(text, i) ==
    IF \E j \in i..Len(text) : ~IsSpace(text[j])
    THEN CHOOSE j \in i..Len(text) : ~IsSpace(text[j]) /\ \A k \in i..(j-1) : IsSpace(text[k])
    ELSE Len(text) + 1

\* \s*([0-9.]+)\s*ms read from position i
NumberThenMs(text, i) ==
    LET j == SkipWs(text, i) IN
    IF j <= Len(text) /\ IsNumber(text[j])
    THEN LET k == SkipWs(text, j + 1) IN
         IF k <= Len(text) /\ text[k] = "ms" THEN Some(ParseFloat(text[j])) ELSE None
    ELSE None

\* r"Execution elapsed:\s*([0-9.]+)\s*ms" matching at atom i
Pattern1At(text, i) ==
    IF text[i] = "Execution elapsed:" THEN NumberThenMs(text, i + 1) ELSE None

\* r"elapsed:?\s*([0-9.]+)\s*ms" matching at atom i
Pattern2At(text, i) ==
    IF text[i] = "Execution elapsed:" THEN NumberThenMs(text, i + 1)
    ELSE IF text[i] = "elapsed"
         THEN IF i < Len(text) /\ text[i + 1] = ":"
              THEN NumberThenMs(text, i + 2)
              ELSE NumberThenMs(text, i + 1)
         ELSE None

\* r"([0-9.]+)\s*ms\s*elapsed" matching at atom i
Pattern3At(text, i) ==
    IF IsNumber(text[i])
    THEN LET j == SkipWs(text, i + 1) IN
         IF j <= Len(text) /\ text[j] = "ms"
         THEN LET k == SkipWs(text, j + 1) IN
              IF k <= Len(text) /\ text[k] = "elapsed" THEN Some(ParseFloat(text[i])) ELSE None
         ELSE None
    ELSE None

\* the three patterns, in the order the loop tries them
PatternAt(p, text, i) ==
    CASE p = 1 -> Pattern1At(text, i)
      [] p = 2 -> Pattern2At(text, i)
      [] p = 3 -> Pattern3At(text, i)

\* re.search: the leftmost match of pattern p
FirstMatch(text, p) ==
    IF \E i \in 1..Len(text) : PatternAt(p, text, i) # None
    THEN PatternAt(p, text, CHOOSE i \in 1..Len(text) :
                               /\ PatternAt(p, text, i) # None
                               /\ \A j \in 1..(i-1) : PatternAt(p, text, j) = None)
    ELSE None

_extract_elapsed_ms_from_logs(log_text) ==
    IF FirstMatch(log_text, 1) # None THEN FirstMatch(log_text, 1)
    ELSE IF FirstMatch(log_text, 2) # None THEN FirstMatch(log_text, 2)
    ELSE FirstMatch(log_text, 3)

(***************************************************************************)
(* Iteration tracking of the SQLite mode (st.session_state)                *)
(*                                                                         *)
(* One action per button.  A button exists only while the script renders   *)
(* it, which gives the guards.  The database path is taken to be set and   *)
(* DatabaseDiagnostician() to construct; the timestamp of a record is left *)
(* out.                                                                    *)
(***************************************************************************)
UserQuery == <<"select", " ", "x">>

\* (mutant) the record is appended whether or not a time was read
TimedAlways(ms) == TRUE

\* "is not None" on a time read from the logs
Timed(ms) == ms # None

\* (mutant) the new record is put in front of the list
AddIterationInFront(query, execution_time_ms, diagnosis, iteration_type) ==
    LET iteration_data == [iteration         |-> current_iteration,
                           query             |-> query,
                           execution_time_ms |-> execution_time_ms,
                           diagnosis         |-> diagnosis,
                           type              |-> iteration_type]
    IN /\ Len(improved_versions) < MaxRecords
       /\ improvement_history' = <<iteration_data>> \o improvement_history
       /\ improved_versions' = Append(improved_versions, iteration_data)
       /\ current_iteration' = current_iteration + 1

\* add_iteration_to_history
add_iteration_to_history(query, execution_time_ms, diagnosis, iteration_type) ==
    LET iteration_data == [iteration         |-> current_iteration,
                           query             |-> query,
                           execution_time_ms |-> execution_time_ms,
                           diagnosis         |-> diagnosis,
                           type              |-> iteration_type]
    IN /\ Len(improved_versions) < MaxRecords
       /\ improvement_history' = Append(improvement_history, iteration_data)
       /\ improved_versions' = Append(improved_versions, iteration_data)
       /\ current_iteration' = current_iteration + 1

historyVars == <<improvement_history, improved_versions, current_iteration>>

\* the label _get_improvement_versions gives to the record at position k
VersionLabel(history, k) ==
    IF history[k].type = "original" THEN <<"Original">>
    ELSE LET improved_counter == Cardinality({j \in 1..k : history[j].type # "original"}) IN
         IF history[k].type = "recursive"
         THEN <<"Improved", " ", NumText(improved_counter), " ", "(Recursive)">>
         ELSE <<"Improved", " ", NumText(improved_counter)>>

_get_improvement_versions(history) ==
    [k \in 1..Len(history) |->
        [label             |-> VersionLabel(history, k),
         iteration         |-> history[k].iteration,
         type              |-> history[k].type,
         execution_time_ms |-> history[k].execution_time_ms,
         query             |-> history[k].query,
         diagnosis         |-> history[k].diagnosis]]

\* improved_query.strip().lower().startswith("select")
StartsWithSelectPrefix(improved_query) ==
    LET q == Strip(improved_query) IN q # <<>> /\ q[1] = "select"

\* the context line handle_recursive_improvement writes for one record
IterationLine(i) ==
    <<"Iteration", " ", NumText(i.iteration), " ", "(", i.type, ")", ":", " ">>
    \o (IF i.execution_time_ms = None THEN <<"None">> ELSE <<NumText(i.execution_time_ms[1])>>)
    \o <<"ms", " ", "-", " ">> \o Slice(i.query, 0, 100) \o <<"...">>
IterationContext(history) == JoinText([k \in 1..Len(history) |-> IterationLine(history[k])])

\* the model calls of a session
SessionReply == <<start_tag, ReasoningOpen, Ch("a"), ReasoningClose, end_tag>>
SessionAnalyses == {Reply(SessionReply)}
SessionCandidate == <<"select", " ", "x", " ", "x", ";">>
SessionImprovements ==
    { Failure("timeout"),
      Reply(<<"FENCE_sql", "\n">> \o SessionCandidate \o <<"\n", "FENCE">>) }
\* the collections made from the query form
FormRuns ==
    { [estimated_only |-> TRUE,  db |-> DbRuns(MaxMs)],
      [estimated_only |-> FALSE, db |-> DbRuns(MaxMs)] }

\* what the database of a session does with a candidate
SessionDbOutcomes ==
    {DbRuns(ms) : ms \in 0..MaxMs} \cup {DbFails(0, <<"no such table: t">>)}

\* The calls of a session, tabulated.  A bundle is what the collector returns
\* for the query of the form or for the candidate, or the placeholder
\* handle_query_comparison makes for a candidate it does not run.
SkippedExec == [logs |-> <<>>, result_preview |-> <<>>]
SessionBundles ==
    {collect_for_query(sql, po, db) :
        sql \in {UserQuery, SessionCandidate, <<>>}, po \in BOOLEAN, db \in SessionDbOutcomes}
    \cup {SkippedExec}
CandidateOf == [reply \in SessionImprovements |-> improve_query(<<>>, reply).value]
ElapsedOf == [b \in SessionBundles |-> _extract_elapsed_ms_from_logs(b.logs)]
AnalysisOf ==
    [b \in SessionBundles, outcome \in SessionAnalyses |-> analyze_performance(b, outcome).value]

\* DatabaseDiagnostician(): the two chat sessions of a new instance, each
\* written as the calls that sent a message on it after its system prompt
NewDiagnostician == [analysis_chat |-> <<>>, simple_chat |-> <<>>]
\* analyze_performance: self.analysis_chat.send_message(xml_input)
SentAnalysis(self, db_data) ==
    [self EXCEPT !.analysis_chat =
        Append(@, [call |-> "analyze_performance", db_data |-> db_data])]
\* improve_query: self.analysis_chat.send_message(content)
SentImprovement(self, db_data, prior_diagnosis_xml, prior_diagnosis) ==
    [self EXCEPT !.analysis_chat =
        Append(@, [call                |-> "improve_query",
                   db_data             |-> db_data,
                   prior_diagnosis_xml |-> prior_diagnosis_xml,
                   prior_diagnosis     |-> prior_diagnosis])]

TrInit ==
    /\ pc = "session"
    /\ sqlite_collected = <<>>
    /\ base_query_data = None
    /\ diagnostics_collected = FALSE
    /\ current_diagnosis = <<>>
    /\ current_mode = ""
    /\ improved_sql = <<>>
    /\ improvement_history = <<>>
    /\ current_iteration = 0
    /\ baseline_selection = <<"Original">>
    /\ improved_versions = <<>>
    /\ measured = <<>>
    /\ diagnostician = None
    /\ selected_version_idx = None
    /\ EncIdle /\ DxIdle /\ RtIdle /\ IqIdle /\ DgIdle /\ LateIdle

pureVars == <<pc, encVars, dxVars, rtVars, iqVars, dgVars, lateVars>>

\* the valid branch of main's SQLite flow is rendered
BundleShown == sqlite_collected # <<>>
\* the analysis results and the improvement options are rendered
OptionsShown == BundleShown /\ current_diagnosis # <<>> /\ current_mode = "sqlite"

\* The version list of the main area, reached by a script run in which the
\* bundle is collected, the diagnosis diagnosis, the candidate improved and
\* the history history: the index is set to the latest version when the
\* session holds none, and the selectbox, which the user leaves alone,
\* hands the stored index back
VersionsShown(collected, diagnosis, improved, history) ==
    /\ collected # <<>> /\ diagnosis # <<>> /\ current_mode = "sqlite"
    /\ improved # <<>> /\ history # <<>>
RenderVersions(collected, diagnosis, improved, history) ==
    selected_version_idx' =
        IF VersionsShown(collected, diagnosis, improved, history)
           /\ selected_version_idx = None
        THEN Some(Len(history) - 1)
        ELSE selected_version_idx
\* st.selectbox is given an index outside its options: the script run stops
\* there and renders nothing below
SelectboxRaises ==
    /\ VersionsShown(sqlite_collected, current_diagnosis, improved_sql, improvement_history)
    /\ selected_version_idx # None
    /\ selected_version_idx[1] >= Len(improvement_history)

\* "Collect Diagnostics" of the query form
FormCollect ==
    /\ \E run \in FormRuns :
          sqlite_collected' = collect_for_query(UserQuery, run.estimated_only, run.db)
    /\ measured' = <<>>
    /\ diagnostician' = None
    /\ RenderVersions(sqlite_collected', current_diagnosis, improved_sql, improvement_history)
    /\ UNCHANGED <<base_query_data, diagnostics_collected, current_diagnosis, current_mode,
                   improved_sql, historyVars, baseline_selection, pureVars>>

\* "Clear" of the query form
FormClear ==
    /\ sqlite_collected' = <<>>
    /\ measured' = <<>>
    /\ diagnostician' = None
    /\ RenderVersions(sqlite_collected', current_diagnosis, improved_sql, improvement_history)
    /\ UNCHANGED <<base_query_data, diagnostics_collected, current_diagnosis, current_mode,
                   improved_sql, historyVars, baseline_selection, pureVars>>

\* step 1, "Collect Diagnostics"
CollectStep ==
    /\ BundleShown
    /\ base_query_data' = sqlite_collected
    /\ diagnostics_collected' = TRUE
    /\ measured' = <<>>
    /\ diagnostician' = None
    /\ RenderVersions(sqlite_collected, current_diagnosis, improved_sql, improvement_history)
    /\ UNCHANGED <<sqlite_collected, current_diagnosis, current_mode,
                   improved_sql, historyVars, baseline_selection, pureVars>>

\* step 2, "Analyze Performance"
AnalyzeStep ==
    /\ BundleShown /\ diagnostics_collected
    /\ \E outcome \in SessionAnalyses :
       \E diagnosis \in {AnalysisOf[sqlite_collected, outcome]} :
       \E original_time \in {ElapsedOf[sqlite_collected]} :
          /\ current_diagnosis' = diagnosis
          /\ current_mode' = "sqlite"
          /\ IF Timed(original_time)
             THEN add_iteration_to_history(sqlite_collected.query, original_time,
                                           diagnosis, "original")
             ELSE UNCHANGED historyVars
    /\ measured' = <<>>
    /\ diagnostician' = SentAnalysis(NewDiagnostician, sqlite_collected)
    /\ RenderVersions(sqlite_collected, current_diagnosis', improved_sql, improvement_history')
    /\ UNCHANGED <<sqlite_collected, base_query_data, diagnostics_collected,
                   improved_sql, baseline_selection, pureVars>>

\* st.session_state.improvement_history[-1]
LatestIteration == improvement_history[Len(improvement_history)]

\* the request data of "Generate Improved Query"
CurrentData ==
    IF improvement_history # <<>>
    THEN [base_query_data EXCEPT !.query = LatestIteration.query]
    ELSE base_query_data

\* (mutant) a call that returns no candidate also empties the history
GenerateImprovedResets ==
    /\ OptionsShown
    /\ \E reply \in SessionImprovements :
       \E improved \in {CandidateOf[reply]} :
          IF improved.improved_query # <<>>
          THEN improved_sql' = improved /\ UNCHANGED historyVars
          ELSE /\ UNCHANGED <<improved_sql, improved_versions>>
               /\ improvement_history' = <<>>
               /\ current_iteration' = 0
    /\ measured' = <<>>
    /\ diagnostician' = SentImprovement(NewDiagnostician, CurrentData,
                                        current_diagnosis.raw_response, current_diagnosis)
    /\ RenderVersions(sqlite_collected, current_diagnosis, improved_sql', improvement_history')
    /\ UNCHANGED <<sqlite_collected, base_query_data, diagnostics_collected, current_diagnosis,
                   current_mode, baseline_selection, pureVars>>

\* "Generate Improved Query": the request goes out on the chat session of a
\* new instance and the reply decides what improve_query returns
GenerateImproved ==
    /\ OptionsShown
    /\ \E reply \in SessionImprovements :
       \E improved \in {CandidateOf[reply]} :
          IF improved.improved_query # <<>>
          THEN improved_sql' = improved
          ELSE UNCHANGED improved_sql
    /\ measured' = <<>>
    /\ diagnostician' = SentImprovement(NewDiagnostician, CurrentData,
                                        current_diagnosis.raw_response, current_diagnosis)
    /\ RenderVersions(sqlite_collected, current_diagnosis, improved_sql', improvement_history)
    /\ UNCHANGED <<sqlite_collected, base_query_data, diagnostics_collected, current_diagnosis,
                   current_mode, historyVars, baseline_selection, pureVars>>

\* the button is rendered and handle_query_comparison passes its first guard
CompareRuns == OptionsShown /\ improved_sql # <<>> /\ base_query_data # None
\* (mutant) the stored candidate is run whatever it is
CompareRejectsNothing == FALSE

\* handle_query_comparison: the stored candidate is not run
CompareRejected ==
    improved_sql.improved_query = <<>> \/ ~StartsWithSelectPrefix(improved_sql.improved_query)
\* handle_query_comparison: what running the stored candidate returns
ImprovedExec(db) ==
    IF CompareRejected
    THEN SkippedExec
    ELSE collect_for_query(improved_sql.improved_query, FALSE, db)

\* "Run & Compare All Queries": handle_query_comparison, the database
\* answering db and the model call of the analysis behaving as outcome says
RunAndCompareWith(db, outcome) ==
    /\ CompareRuns
    /\ \E improved_exec \in {ImprovedExec(db)} :
       \E imp_ms \in {ElapsedOf[improved_exec]} :
          /\ IF Timed(imp_ms)
             THEN /\ diagnostician' = SentAnalysis(NewDiagnostician, improved_exec)
                  /\ add_iteration_to_history(improved_sql.improved_query, imp_ms,
                                              AnalysisOf[improved_exec, outcome], "improved")
             ELSE /\ diagnostician' = None
                  /\ UNCHANGED historyVars
          /\ measured' = [step |-> "compare", rejected |-> CompareRejected, ms |-> imp_ms,
                          executed |-> IF CompareRejected THEN None
                                       ELSE Some(improved_sql.improved_query)]
    /\ RenderVersions(sqlite_collected, current_diagnosis, improved_sql, improvement_history')
    /\ UNCHANGED <<sqlite_collected, base_query_data, diagnostics_collected, current_diagnosis,
                   current_mode, improved_sql, baseline_selection, pureVars>>

RunAndCompare == \E db \in SessionDbOutcomes, outcome \in SessionAnalyses : RunAndCompareWith(db, outcome)

\* the button is rendered and handle_recursive_improvement passes its guards
RecursiveRuns ==
    /\ OptionsShown /\ improved_sql # <<>>
    /\ improvement_history # <<>> /\ base_query_data # None
\* handle_recursive_improvement: the request data
EnhancedData ==
    Merge(base_query_data,
          [query               |-> LatestIteration.query,
           improvement_history |-> IterationContext(improvement_history)])
\* handle_recursive_improvement: the candidate is run
RecursiveAccepted(improved_query) ==
    improved_query # <<>> /\ StartsWithSelectPrefix(improved_query)

\* "Generate Even Better Query (Recursive)": handle_recursive_improvement
\* with its early returns
RecursiveReturnsEarly ==
    /\ ~SelectboxRaises
    /\ OptionsShown /\ improved_sql # <<>>
    /\ improvement_history = <<>> \/ base_query_data = None
    /\ measured' = <<>>
    /\ diagnostician' = None
    /\ RenderVersions(sqlite_collected, current_diagnosis, improved_sql, improvement_history)
    /\ UNCHANGED <<sqlite_collected, base_query_data, diagnostics_collected, current_diagnosis,
                   current_mode, improved_sql, historyVars, baseline_selection, pureVars>>

\* the model answering reply, the database db, the analysis call outcome
RecursiveWith(reply, db, outcome) ==
    /\ ~SelectboxRaises
    /\ RecursiveRuns
    /\ \E recursive_improved \in {CandidateOf[reply]} :
       \E asked \in {SentImprovement(NewDiagnostician, EnhancedData,
                                     LatestIteration.diagnosis.raw_response,
                                     LatestIteration.diagnosis)} :
          /\ improved_sql' = recursive_improved
          /\ IF RecursiveAccepted(recursive_improved.improved_query)
             THEN \E recursive_exec \in
                        {collect_for_query(recursive_improved.improved_query, FALSE, db)} :
                  \E recursive_ms \in {ElapsedOf[recursive_exec]} :
                     /\ IF Timed(recursive_ms)
                        THEN /\ diagnostician' = SentAnalysis(asked, recursive_exec)
                             /\ add_iteration_to_history(
                                   recursive_improved.improved_query, recursive_ms,
                                   AnalysisOf[recursive_exec, outcome], "recursive")
                        ELSE /\ diagnostician' = asked
                             /\ UNCHANGED historyVars
                     /\ measured' = [step |-> "recursive", rejected |-> FALSE,
                                     ms |-> recursive_ms,
                                     executed |-> Some(recursive_improved.improved_query)]
             ELSE /\ diagnostician' = asked
                  /\ UNCHANGED historyVars
                  /\ measured' = [step |-> "recursive", rejected |-> TRUE, ms |-> None,
                                  executed |-> None]
    /\ RenderVersions(sqlite_collected, current_diagnosis, improved_sql, improvement_history)
    /\ UNCHANGED <<sqlite_collected, base_query_data, diagnostics_collected, current_diagnosis,
                   current_mode, baseline_selection, pureVars>>

RecursiveImprovement ==
    \/ RecursiveReturnsEarly
    \/ \E reply \in SessionImprovements, db \in SessionDbOutcomes, outcome \in SessionAnalyses :
          RecursiveWith(reply, db, outcome)

\* "Use this as baseline for next improvement" / "Use as Baseline"
UseAsBaseline ==
    /\ OptionsShown /\ improved_sql # <<>>
    /\ \E idx \in 1..Len(improvement_history) :
          LET selected == _get_improvement_versions(improvement_history)[idx] IN
          /\ base_query_data' = [base_query_data EXCEPT !.query = selected.query]
          /\ baseline_selection' = selected.label
    /\ measured' = <<>>
    /\ diagnostician' = None
    /\ RenderVersions(sqlite_collected, current_diagnosis, improved_sql, improvement_history)
    /\ UNCHANGED <<sqlite_collected, diagnostics_collected, current_diagnosis, current_mode,
                   improved_sql, historyVars, pureVars>>

\* min(valid, key=...): the records are visited in order and a record
\* replaces the one kept only when its time is strictly smaller
RECURSIVE MinFrom(_, _, _)
MinFrom(valid, k, best) ==
    IF k > Len(valid) THEN best
    ELSE MinFrom(valid, k + 1,
                 IF valid[k].execution_time_ms[1] < valid[best].execution_time_ms[1]
                 THEN k ELSE best)

\* the records of the list that carry a time
ValidVersions(versions) ==
    SelectSeq(versions, LAMBDA v : v.execution_time_ms # None)

\* (mutant) among the records of minimal time the last one is kept
BestVersionKeepsLast(versions) ==
    LET valid == ValidVersions(versions)
        k     == CHOOSE i \in 1..Len(valid) :
                    /\ \A j \in 1..Len(valid) :
                          valid[i].execution_time_ms[1] <= valid[j].execution_time_ms[1]
                    /\ \A j \in (i+1)..Len(valid) :
                          valid[j].execution_time_ms[1] > valid[i].execution_time_ms[1]
    IN valid[k]

\* valid = [v for v in versions if ... is not None]; best = min(valid, key=...)
BestVersion(versions) ==
    LET valid == ValidVersions(versions) IN valid[MinFrom(valid, 2, 1)]

\* "Use Best Query"
UseBestQuery ==
    /\ OptionsShown /\ improved_sql # <<>>
    /\ \E i \in 1..Len(improvement_history) : improvement_history[i].execution_time_ms # None
    /\ base_query_data' =
          [base_query_data EXCEPT
              !.query = BestVersion(_get_improvement_versions(improvement_history)).query]
    /\ measured' = <<>>
    /\ diagnostician' = None
    /\ RenderVersions(sqlite_collected, current_diagnosis, improved_sql, improvement_history)
    /\ UNCHANGED <<sqlite_collected, diagnostics_collected, current_diagnosis, current_mode,
                   improved_sql, historyVars, baseline_selection, pureVars>>

\* (mutant) the history is emptied and the counter keeps its value
ClearHistoryKeepsCounter ==
    /\ ~SelectboxRaises
    /\ improvement_history # <<>>
    /\ improvement_history' = <<>>
    /\ improved_sql' = <<>>
    /\ current_diagnosis' = <<>>
    /\ measured' = <<>>
    /\ diagnostician' = None
    /\ UNCHANGED selected_version_idx
    /\ UNCHANGED <<sqlite_collected, base_query_data, diagnostics_collected, current_mode,
                   current_iteration, improved_versions, baseline_selection, pureVars>>

\* "Clear Improvement History"
ClearHistory ==
    /\ ~SelectboxRaises
    /\ improvement_history # <<>>
    /\ improvement_history' = <<>>
    /\ current_iteration' = 0
    /\ improved_sql' = <<>>
    /\ current_diagnosis' = <<>>
    /\ measured' = <<>>
    /\ diagnostician' = None
    /\ UNCHANGED selected_version_idx
    /\ UNCHANGED <<sqlite_collected, base_query_data, diagnostics_collected, current_mode,
                   improved_versions, baseline_selection, pureVars>>

TrNext ==
    \/ FormCollect \/ FormClear \/ CollectStep \/ AnalyzeStep \/ GenerateImproved
    \/ RunAndCompare \/ RecursiveImprovement \/ UseAsBaseline \/ UseBestQuery \/ ClearHistory
SpecTracker == TrInit /\ [][TrNext]_vars

\* C10: every record of improvement_history has a non-null execution_time_ms,
\* and a Run & Compare or recursive run whose candidate was rejected or whose
\* execution gave no timing leaves the length of the history unchanged.
C10_OnlyTimedAttempts ==
    /\ [](\A k \in 1..Len(improvement_history) :
             improvement_history[k].execution_time_ms # None)
    /\ [][(measured' # <<>> /\ (measured'.rejected \/ measured'.ms = None))
             => Len(improvement_history') = Len(improvement_history)]_vars

\* Run & Compare has just run a candidate the database refused, so that no
\* time was read, on a history that holds the original and a timed attempt
C10_Witness ==
    /\ measured # <<>>
    /\ measured.step = "compare"
    /\ measured.ms = None
    /\ Len(improvement_history) = 2
    /\ improvement_history[1].type = "original"
    /\ improvement_history[2].execution_time_ms # None


\* C11: whenever some record carries a time, the record the best-query
\* selection returns carries a time, no record with a time is faster, and
\* among the records as fast as it none has a smaller iteration number.
C11_BestIsEarliestMinimum ==
    (\E k \in 1..Len(improvement_history) : improvement_history[k].execution_time_ms # None)
    => LET best == BestVersion(_get_improvement_versions(improvement_history)) IN
       /\ best.execution_time_ms # None
       /\ \E k \in 1..Len(improvement_history) :
             /\ improvement_history[k].iteration = best.iteration
             /\ improvement_history[k].query = best.query
             /\ improvement_history[k].execution_time_ms = best.execution_time_ms
       /\ \A k \in 1..Len(improvement_history) :
             improvement_history[k].execution_time_ms # None
             => /\ best.execution_time_ms[1] <= improvement_history[k].execution_time_ms[1]
                /\ (improvement_history[k].execution_time_ms = best.execution_time_ms
                      => best.iteration <= improvement_history[k].iteration)

\* "Use Best Query" has put the candidate in the baseline on a history whose
\* original is slower than two later records that tie on the minimum
C11_Witness ==
    /\ Len(improvement_history) = 3
    /\ improvement_history[2].execution_time_ms = improvement_history[3].execution_time_ms
    /\ improvement_history[2].execution_time_ms[1] < improvement_history[1].execution_time_ms[1]
    /\ BestVersion(_get_improvement_versions(improvement_history)).iteration = 1
    /\ base_query_data # None
    /\ base_query_data.query = improvement_history[2].query
    /\ base_query_data.query # improvement_history[1].query


\* the positions of the history whose record is not the original
AttemptPositions == {k \in 1..Len(improvement_history) : improvement_history[k].type # "original"}

\* C12: the records appended by Run & Compare and by the recursive action
\* are tagged by round: the first record after the original is tagged
\* improved and every later one recursive, so that a history holds at most
\* one improved record and it precedes every recursive record.
C12_TaggedByRound ==
    \A k \in AttemptPositions :
        IF \A j \in AttemptPositions : k <= j
        THEN improvement_history[k].type = "improved"
        ELSE improvement_history[k].type = "recursive"

\* C13: a history never holds more than one record tagged original.
C13_OneOriginal ==
    Cardinality({k \in 1..Len(improvement_history) :
                    improvement_history[k].type = "original"}) <= 1

\* C14: a history that is not empty starts with a record tagged original.
C14_OriginalFirst ==
    improvement_history # <<>> => improvement_history[1].type = "original"


\* C15: the record at position k of the history, counted from 0, has
\* iteration number k, and current_iteration is the length of the history,
\* after any sequence of analyses, comparisons, recursive runs and clears.
C15_IterationIsPosition ==
    /\ current_iteration = Len(improvement_history)
    /\ \A k \in 1..Len(improvement_history) : improvement_history[k].iteration = k - 1

\* the history was cleared and two records were appended since
C15_Witness ==
    /\ Len(improvement_history) = 2
    /\ Len(improved_versions) = 3
    /\ improvement_history[2].iteration = 1

\* a step keeps the records of the history in place and adds at most one
AppendsAtMostOne ==
    \/ improvement_history' = improvement_history
    \/ /\ Len(improvement_history') = Len(improvement_history) + 1
       /\ SubSeq(improvement_history', 1, Len(improvement_history)) = improvement_history

\* C16: every step other than Clear Improvement History leaves the records
\* of the history unchanged at their positions and appends at most one
\* record at the end.
C16_AppendOnly == [][ClearHistory \/ AppendsAtMostOne]_vars

\* the recursive action has just appended a third record
C16_Witness ==
    /\ measured # <<>>
    /\ measured.step = "recursive"
    /\ measured.ms # None
    /\ Len(improvement_history) = 3
    /\ improvement_history[3].type = "recursive"

\* C17: Generate Improved Query, Use as baseline and Use Best Query leave
\* improvement_history and current_iteration as they were, whatever
\* improve_query returns.
C17_ProposeAndSelectKeepHistory ==
    [][(GenerateImproved \/ UseAsBaseline \/ UseBestQuery)
          => UNCHANGED <<improvement_history, current_iteration>>]_vars

\* a candidate is stored and a later version was chosen as baseline on a
\* history of two records, none of the measuring handlers having run last
C17_Witness ==
    /\ measured = <<>>
    /\ improved_sql # <<>>
    /\ baseline_selection = <<"Improved", " ", "1">>
    /\ base_query_data # None
    /\ base_query_data.query = SessionCandidate
    /\ Len(improvement_history) = 2
    /\ current_iteration = 2


\* the handler of this step called improve_query: the call is the first
\* message on the chat session of the instance the handler constructed
ImproveSent ==
    /\ diagnostician' # None
    /\ diagnostician'.analysis_chat[1].call = "improve_query"
AskedImprovement == diagnostician'.analysis_chat[1]

\* C18: every call of improve_query made on a non-empty history, by Generate
\* Improved Query or by the recursive action, is given the query of the
\* latest record and the diagnosis of the latest record as prior context.
C18_PriorIsLatestRecord ==
    [][(ImproveSent /\ improvement_history # <<>>)
          => /\ AskedImprovement.db_data.query = LatestIteration.query
             /\ AskedImprovement.prior_diagnosis = LatestIteration.diagnosis
             /\ AskedImprovement.prior_diagnosis_xml = LatestIteration.diagnosis.raw_response]_vars

\* the baseline was set with "Use as baseline" to the version at position i:
\* baseline_selection holds its label, which is not the label the session
\* starts with, and base_query_data holds its query
BaselineIs(i) ==
    /\ base_query_data # None
    /\ baseline_selection # <<"Original">>
    /\ baseline_selection = VersionLabel(improvement_history, i)
    /\ base_query_data.query = improvement_history[i].query

\* C19: once a version was chosen as baseline, the next call of
\* improve_query is given the query of that version, also when the version
\* is not the latest record.
C19_BaselineIsImproved ==
    [][\A i \in 1..Len(improvement_history) :
          (ImproveSent /\ BaselineIs(i))
             => AskedImprovement.db_data.query = improvement_history[i].query]_vars

\* C20: a call of improve_query goes out on a chat session on which the
\* analysis that preceded it was sent, and the handlers of the analysis and
\* improvement calls send nothing on the chat session of the simplified chat.
C20_ImproveSeesAnalysis ==
    diagnostician # None
    => /\ diagnostician.simple_chat = <<>>
       /\ \A k \in 1..Len(diagnostician.analysis_chat) :
             diagnostician.analysis_chat[k].call = "improve_query"
             => \E j \in 1..(k - 1) :
                   diagnostician.analysis_chat[j].call = "analyze_performance"


\* C21: a candidate that is empty or does not begin with SELECT is not handed
\* to the collector, by Run & Compare or by the recursive action, and every
\* record tagged improved or recursive holds a query that begins with SELECT.
C21_OnlySelectCandidatesRun ==
    /\ measured # <<>>
       => /\ measured.executed # None => StartsWithSelectPrefix(measured.executed[1])
          /\ measured.rejected => measured.executed = None /\ measured.ms = None
    /\ \A k \in 1..Len(improvement_history) :
          improvement_history[k].type \in {"improved", "recursive"}
          => StartsWithSelectPrefix(improvement_history[k].query)

\* Run & Compare has just refused the empty candidate a failed recursive
\* call left in improved_sql, on a history that holds an earlier attempt
C21_Witness ==
    /\ measured # <<>>
    /\ measured.step = "compare"
    /\ measured.rejected
    /\ improved_sql.improved_query = <<>>
    /\ \E k \in 1..Len(improvement_history) : improvement_history[k].type = "improved"


\* C26: a candidate is recorded at most once: when Run & Compare has just
\* recorded the stored candidate and is pressed again, no candidate having
\* been generated in between, the second press appends no record.
C26_CandidateRecordedOnce ==
    [][(/\ measured # <<>> /\ measured.step = "compare" /\ measured.ms # None
        /\ measured' # <<>> /\ measured'.step = "compare"
        /\ improved_sql' = improved_sql)
          => Len(improvement_history') = Len(improvement_history)]_vars


\* C29: whenever the version list is displayed, the stored
\* selected_version_idx is an index into the list of versions built from
\* improvement_history, also after a clear followed by a shorter history.
C29_SelectedIndexValid ==
    VersionsShown(sqlite_collected, current_diagnosis, improved_sql, improvement_history)
    => /\ selected_version_idx # None
       /\ selected_version_idx[1] \in
             0..(Len(_get_improvement_versions(improvement_history)) - 1)


\* the element texts the decoded envelope was built from, and what is left
\* of such a text once surrounding white space is removed
ListedTexts == CHOOSE texts \in SeqsUpTo(ItemTexts, MaxItems) : dx_in = ListedEnvelope(texts)
TrimmedItem(text) == IF text = <<Ch(" ")>> THEN <<>> ELSE text
DescriptionsInOrder(entries) ==
    /\ Len(entries) = Len(ListedTexts)
    /\ \A i \in 1..Len(entries) : entries[i].description = TrimmedItem(ListedTexts[i])

\* C25 as stated: for a well-formed envelope each of bottlenecks,
\* root_causes, recommendations and comments has exactly one entry per
\* element of its section, in document order.
C25_Original ==
    (pc = "dx_done" /\ dx_in \in ListedReplies)
    => /\ ~dx_out.raised
       /\ DescriptionsInOrder(dx_out.value.bottlenecks)
       /\ DescriptionsInOrder(dx_out.value.root_causes)
       /\ DescriptionsInOrder(dx_out.value.recommendations)
       /\ Len(dx_out.value.comments) = Len(ListedTexts)
       /\ \A i \in 1..Len(ListedTexts) : dx_out.value.comments[i] = TrimmedItem(ListedTexts[i])

\* C25 (amended): bottlenecks, root_causes and recommendations have exactly
\* one entry per element of their section, in document order; comments lists,
\* in document order, the comment elements whose trimmed text is not empty.
C25_DocumentOrder ==
    (pc = "dx_done" /\ dx_in \in ListedReplies)
    => /\ ~dx_out.raised
       /\ DescriptionsInOrder(dx_out.value.bottlenecks)
       /\ DescriptionsInOrder(dx_out.value.root_causes)
       /\ DescriptionsInOrder(dx_out.value.recommendations)
       /\ dx_out.value.comments
             = SelectSeq([i \in 1..Len(ListedTexts) |-> TrimmedItem(ListedTexts[i])],
                         LAMBDA text : text # <<>>)

\* an envelope that lists "b" before "a" has been decoded, and so has one
\* that lists a blank element before "a"
C25_Witness ==
    /\ pc = "dx_done"
    /\ \/ dx_in = ListedEnvelope(<< <<Ch("b")>>, <<Ch("a")>> >>)
       \/ dx_in = ListedEnvelope(<< <<Ch(" ")>>, <<Ch("a")>> >>)
    /\ Len(dx_out.value.bottlenecks) = 2


\* the atoms of raw between the fence at position o and the fence at
\* position c hold every atom of sql that is not white space
WithinFences(raw, o, c, sql) ==
    /\ IsFence(raw[o]) /\ IsFence(raw[c])
    /\ \A j \in (o + 1)..(c - 1) : ~IsFence(raw[j])
    /\ \A k \in 1..Len(sql) :
          IsSpace(sql[k]) \/ \E j \in (o + 1)..(c - 1) : raw[j] = sql[k]

\* C28: for every model reply, an improved_query that is not empty is made
\* of text that lies between an opening fence and the next closing fence,
\* also when no line break follows the opening fence or the fence is never
\* closed.
C28_OnlyFromFencedBlock ==
    (pc = "iq_done" /\ iq_out.improved_query # <<>>)
    => \E o \in 1..Len(iq_raw) : \E c \in (o + 1)..Len(iq_raw) :
          WithinFences(iq_raw, o, c, iq_out.improved_query)

(***************************************************************************)
(* collect_for_query on its own, and the two functions that read a time    *)
(* back from its logs                                                      *)
(***************************************************************************)
\* RecommendationTester._extract_time: the first pattern only
_extract_time(logs) == FirstMatch(logs, 1)

\* the last statement names a column the table does not have
ColStatements == {UserQuery, SessionCandidate, <<"select", " ", "elapsed", "1", "ms">>}
ColDbOutcomes ==
    {DbRuns(ms) : ms \in 0..MaxColMs}
    \cup {DbFails(ms, e) : ms \in 0..MaxColMs, e \in DbErrors}

ColInit ==
    /\ pc = "col_ready"
    /\ col_in \in [sql : ColStatements, estimated_plan_only : BOOLEAN, db : ColDbOutcomes]
    /\ col_out = <<>>
    /\ EncIdle /\ DxIdle /\ RtIdle /\ IqIdle /\ DgIdle /\ TrIdle
    /\ ReqIdle /\ IxIdle /\ ChatIdle

\* one collection; cur.execute(sql) is reached only past `if not
\* estimated_plan_only`
Collect ==
    /\ pc = "col_ready"
    /\ \E collected \in {collect_for_query(col_in.sql, col_in.estimated_plan_only, col_in.db)} :
          col_out' = [collected  |-> collected,
                      executed   |-> ~col_in.estimated_plan_only,
                      elapsed_ms |-> _extract_elapsed_ms_from_logs(collected.logs),
                      time       |-> _extract_time(collected.logs)]
    /\ pc' = "col_done"
    /\ UNCHANGED <<col_in, earlyVars, reqVars, ixVars, chatVars>>

ColNext == Collect
SpecCollect == ColInit /\ [][ColNext]_vars

\* the logs hold a line "Execution elapsed: <number> ms"
HasElapsedLine(logs) ==
    \E i \in 1..Len(logs) :
        /\ logs[i] = "Execution elapsed:"
        /\ i = 1 \/ logs[i - 1] = "\n"
        /\ NumberThenMs(logs, i + 1) # None

\* C22: the logs of a collection hold the line "Execution elapsed: <number>
\* ms" exactly when execution was requested and the query ran without
\* error; a plan-only collection does not execute the query; and after a
\* plan-only or a failed execution the tracker's timing extraction
\* (_extract_elapsed_ms_from_logs) returns None.
C22_TimingConvention ==
    pc = "col_done" =>
        /\ HasElapsedLine(col_out.collected.logs)
              <=> (~col_in.estimated_plan_only /\ col_in.db.ok)
        /\ col_in.estimated_plan_only => ~col_out.executed
        /\ (col_in.estimated_plan_only \/ ~col_in.db.ok) => col_out.elapsed_ms = None

(***************************************************************************)
(* improve_query: the request it assembles (gemini_client.py 129-211)      *)
(*                                                                         *)
(* An entry of context_parts is written as the fixed text it opens with    *)
(* (lead) and the text that follows (body).  content, the "\n\n".join of   *)
(* the entries and the instruction, is written as the sequence of its      *)
(* entries; two blank-line separators lie between neighbours.              *)
(***************************************************************************)
Part(lead, body) == [lead |-> lead, body |-> body]
PriorMarker == "\n<!-- prior_diagnosis -->\n"
HistoryMarker == "\n<!-- improvement_history -->\n"
RecursiveInstruction ==
    <<"Given the provided <database_info>, <diagnosis> context, and improvement history, propose an even better SQL query that builds upon previous optimizations. ...">>
StrictInstruction ==
    <<"Given the provided <database_info> and optional <diagnosis> context, propose an improved SQL query ... Return EXACTLY one improved SELECT statement only. ...">>

\* dict.get(key): None when the key is missing
DictGet(d, key) == IF key \in DOMAIN d THEN d[key] ELSE None

\* (mutant) the typed Diagnosis is rebuilt even when the raw reply was attached
PriorDiagnosisPartsBoth(prior_diagnosis_xml, prior_diagnosis) ==
    (IF prior_diagnosis_xml # <<>>
        /\ \E i \in 1..Len(prior_diagnosis_xml) : prior_diagnosis_xml[i] = start_tag
     THEN << Part(PriorMarker, StripTok(prior_diagnosis_xml)) >> ELSE <<>>)
    \o (IF prior_diagnosis # <<>>
        THEN << Part("", ReconstructDiagnosis(prior_diagnosis)) >> ELSE <<>>)

\* "Attach prior diagnosis if available": what the if / elif appends
PriorDiagnosisParts(prior_diagnosis_xml, prior_diagnosis) ==
    IF prior_diagnosis_xml # <<>>
       /\ \E i \in 1..Len(prior_diagnosis_xml) : prior_diagnosis_xml[i] = start_tag
    THEN << Part(PriorMarker, StripTok(prior_diagnosis_xml)) >>
    ELSE IF prior_diagnosis # <<>>
         THEN << Part("", ReconstructDiagnosis(prior_diagnosis)) >>
         ELSE <<>>

\* improvement_context or db_data.get("improvement_history")
history_block(db_data, improvement_context) ==
    IF improvement_context # <<>> THEN improvement_context
    ELSE DictGet(db_data, "improvement_history")

HistoryParts(db_data, improvement_context) ==
    IF history_block(db_data, improvement_context) # <<>>
    THEN << Part(HistoryMarker, history_block(db_data, improvement_context)) >>
    ELSE <<>>

\* if db_data.get("improvement_history"): ... else: ...
instruction(db_data) ==
    IF DictGet(db_data, "improvement_history") # <<>>
    THEN RecursiveInstruction ELSE StrictInstruction

context_parts(db_data, prior_diagnosis_xml, prior_diagnosis, improvement_context) ==
    << Part("", create_input_xml(db_data)) >>
    \o PriorDiagnosisParts(prior_diagnosis_xml, prior_diagnosis)
    \o HistoryParts(db_data, improvement_context)

\* "\n\n".join(context_parts + [instruction])
content(db_data, prior_diagnosis_xml, prior_diagnosis, improvement_context) ==
    context_parts(db_data, prior_diagnosis_xml, prior_diagnosis, improvement_context)
    \o << Part("", instruction(db_data)) >>

\* ---- the calls made ----
\* the context of a history of one record
ReqHistoryText ==
    IterationContext(<< [iteration |-> 0, type |-> "original",
                         execution_time_ms |-> Some(1), query |-> UserQuery] >>)
ReqBundles ==
    {[query |-> q, logs |-> <<"logs">>] : q \in {UserQuery, SessionCandidate}}
    \cup {[query |-> q, logs |-> <<"logs">>, improvement_history |-> h] :
             q \in {UserQuery, SessionCandidate}, h \in {<<>>, ReqHistoryText}}
\* no reply, a reply without an envelope, an envelope, an envelope between
\* white space
ReqRawReplies ==
    {<<>>, <<Ch("a")>>, SessionReply, <<Ch(" ")>> \o SessionReply \o <<Ch("\n")>>}
\* no Diagnosis, one with every section empty, one with every section filled
ReqDiagnoses ==
    {<<>>,
     MkDiagnosis(0, 0, 0, 0, <<>>, <<"Idx">>, <<>>),
     MkDiagnosis(1, 1, 1, 1, <<Ch("a")>>, <<"Idx">>, <<Ch("a")>>)}
ReqContexts == {<<>>, ReqHistoryText}

ReqInit ==
    /\ pc = "req_ready"
    /\ req_in \in [db_data : ReqBundles, prior_diagnosis_xml : ReqRawReplies,
                   prior_diagnosis : ReqDiagnoses, improvement_context : ReqContexts]
    /\ req_out = <<>>
    /\ EncIdle /\ DxIdle /\ RtIdle /\ IqIdle /\ DgIdle /\ TrIdle
    /\ ColIdle /\ IxIdle /\ ChatIdle

\* improve_query up to self.analysis_chat.send_message(content)
SendImproveRequest ==
    /\ pc = "req_ready"
    /\ \E c \in {content(req_in.db_data, req_in.prior_diagnosis_xml,
                         req_in.prior_diagnosis, req_in.improvement_context)} :
          req_out' = [sent |-> c]
    /\ pc' = "req_sent"
    /\ UNCHANGED <<req_in, earlyVars, colVars, ixVars, chatVars>>

ReqNext == SendImproveRequest
SpecReq == ReqInit /\ [][ReqNext]_vars

\* the entries of a sent request that are prior-diagnosis blocks: the
\* entries between the seven-section block and the instruction that open
\* with the prior-diagnosis marker or with the envelope start marker
PriorBlocks(sent) ==
    {i \in 2..(Len(sent) - 1) :
        \/ sent[i].lead = PriorMarker
        \/ sent[i].lead = "" /\ sent[i].body # <<>> /\ sent[i].body[1] = start_tag}
HistoryBlocks(sent) == {i \in 2..(Len(sent) - 1) : sent[i].lead = HistoryMarker}
RawSupplied == \E i \in 1..Len(req_in.prior_diagnosis_xml) : req_in.prior_diagnosis_xml[i] = start_tag

C27_RecursiveIffHistoryBlock ==
    pc = "req_sent" =>
        LET sent == req_out.sent IN
        (sent[Len(sent)].body = RecursiveInstruction) <=> (HistoryBlocks(sent) # {})

(***************************************************************************)
(* RecommendationTester.test_index_recommendation                          *)
(*                                                                         *)
(* A database file is written as the set of index statements applied to    *)
(* it; ix_fs holds the file at db_path and, while it exists, the file at   *)
(* the temporary path.                                                     *)
(***************************************************************************)
IndexStatements == {<<"create index i on t(x)">>, <<"create index j on t(y)">>}
IxDbOutcomes == {DbRuns(0), DbRuns(2), DbRuns(4), DbFails(0, <<"no such table: t">>)}

\* "if baseline_time and improved_time": None and 0.0 are both false
TruthyTime(t) == t # None /\ t[1] # 0

\* ((baseline_time - improved_time) / baseline_time) * 100, to whole percent
ImprovementPercent(baseline_time, improved_time) ==
    ((baseline_time - improved_time) * 100) \div baseline_time

IxInit ==
    /\ pc = "ix_ready"
    /\ ix_in \in [original_query : {UserQuery}, index_sql : IndexStatements,
                  copy_ok : BOOLEAN, index_ok : BOOLEAN,
                  base_db : IxDbOutcomes, temp_db : IxDbOutcomes]
    /\ ix_fs = [db_path |-> {}, temp_db |-> None]
    /\ ix_out = <<>>
    /\ EncIdle /\ DxIdle /\ RtIdle /\ IqIdle /\ DgIdle /\ TrIdle
    /\ ColIdle /\ ReqIdle /\ ChatIdle

\* the copy is made, then the statement is run
\* on it; either step may raise, and the second leaves the copy behind
_create_temp_db_with_index(fs, index_sql, copy_ok, index_ok) ==
    IF ~copy_ok
    THEN [raised |-> TRUE, error |-> "No such file or directory", fs |-> fs]
    ELSE IF ~index_ok
         THEN [raised |-> TRUE, error |-> "no such column",
               fs |-> [fs EXCEPT !.temp_db = Some(fs.db_path)]]
         ELSE [raised |-> FALSE, error |-> "",
               fs |-> [fs EXCEPT !.temp_db = Some(fs.db_path \cup {index_sql})]]

test_index_recommendation(fs, in) ==
    LET baseline      == collect_for_query(in.original_query, FALSE, in.base_db)
        baseline_time == _extract_time(baseline.logs)
        made          == _create_temp_db_with_index(fs, in.index_sql, in.copy_ok, in.index_ok)
        improved      == collect_for_query(in.original_query, FALSE, in.temp_db)
        improved_time == _extract_time(improved.logs)
        measured_both == TruthyTime(baseline_time) /\ TruthyTime(improved_time)
    IN  IF made.raised
        THEN [fs      |-> made.fs,
              results |-> [recommendation |-> in.index_sql, original_time |-> baseline_time,
                           improved_time |-> None, improvement_percent |-> None,
                           success |-> FALSE, error |-> Some(made.error)]]
        ELSE [fs      |-> [made.fs EXCEPT !.temp_db = None],     \* os.remove(temp_db)
              results |-> [recommendation |-> in.index_sql, original_time |-> baseline_time,
                           improved_time |-> improved_time,
                           improvement_percent |->
                               IF measured_both
                               THEN Some(ImprovementPercent(baseline_time[1], improved_time[1]))
                               ELSE None,
                           success |-> measured_both, error |-> None]]

TestIndexRecommendation ==
    /\ pc = "ix_ready"
    /\ \E r \in {test_index_recommendation(ix_fs, ix_in)} :
          /\ ix_fs' = r.fs
          /\ ix_out' = r.results
    /\ pc' = "ix_done"
    /\ UNCHANGED <<ix_in, earlyVars, colVars, reqVars, chatVars>>

IxNext == TestIndexRecommendation
SpecIx == IxInit /\ [][IxNext]_vars

\* C23: after test_index_recommendation returns, on the success path and on
\* every error path, the original database has not had the index statement
\* applied to it and the temporary copy no longer exists.
C23_NoPermanentChange ==
    pc = "ix_done" =>
        /\ ix_in.index_sql \notin ix_fs.db_path
        /\ ix_fs.temp_db = None

(***************************************************************************)
(* The AI Chat Assistant mode of display_scenario_selector                 *)
(*                                                                         *)
(* chat_history is None while the key is not in st.session_state.  The     *)
(* handler of the chat input runs to its st.rerun() in one script run.     *)
(***************************************************************************)
Greeting ==
    [role |-> "assistant",
     content |-> <<"Hi! I'm your SQL performance assistant. How can I help you optimize your database queries today?">>]
UserMessage(prompt) == [role |-> "user", content |-> prompt]
AssistantMessage(text) == [role |-> "assistant", content |-> text]
SorryMessage(e) == AssistantMessage(<<"Sorry, I encountered an error: ", e>>)

\* the loop "for m in st.session_state.chat_history[:-1]" from entry i on
RECURSIVE PairsFrom(_, _, _)
PairsFrom(ms, i, pending_user) ==
    IF i > Len(ms) THEN <<>>
    ELSE IF ms[i].role = "user"
         THEN PairsFrom(ms, i + 1, Some(ms[i].content))
         ELSE IF ms[i].role = "assistant" /\ pending_user # None
              THEN << [user |-> pending_user[1], response |-> ms[i].content] >>
                   \o PairsFrom(ms, i + 1, None)
              ELSE PairsFrom(ms, i + 1, pending_user)

\* (mutant) the loop starts with a pending user message, so the greeting
\* closes a pair
pairs_from_greeting(history) == PairsFrom(Slice(history, 0, Len(history) - 1), 1, Some(<<>>))

\* pairs, as built from the history that already ends with the new message
pairs(history) == PairsFrom(Slice(history, 0, Len(history) - 1), 1, None)

ChatPrompts == {<<"x">>, <<"x", " ", "x">>}
ChatOutcomes ==
    {Failure("timeout"), Reply(<<"<response>", " ", "x", " ", "</response>">>), Reply(<<>>)}

ChatInit ==
    /\ pc = "chat"
    /\ chat_history = None
    /\ chat_call = None
    /\ EncIdle /\ DxIdle /\ RtIdle /\ IqIdle /\ DgIdle /\ TrIdle
    /\ ColIdle /\ ReqIdle /\ IxIdle

\* the mode is rendered for the first time
OpenChat ==
    /\ pc = "chat"
    /\ chat_history = None
    /\ chat_history' = <<Greeting>>
    /\ UNCHANGED <<pc, chat_call, earlyVars, colVars, reqVars, ixVars>>

\* a message is entered; constructs tells whether DatabaseDiagnostician()
\* returns an instance or raises
SendChatMessage ==
    /\ pc = "chat"
    /\ chat_history # None
    /\ Len(chat_history) < 1 + 2 * MaxChat
    /\ \E prompt \in ChatPrompts, constructs \in BOOLEAN, outcome \in ChatOutcomes :
         LET asked == Append(chat_history, UserMessage(prompt)) IN
         IF ~constructs
         THEN /\ chat_history' = Append(asked, SorryMessage("GEMINI_API_KEY not found"))
              /\ chat_call' = None
         ELSE \E history \in {pairs(asked)} :
              \E reply \in {chat_respond(history, prompt, outcome)} :
                 /\ chat_history' =
                       Append(asked, IF reply.raised THEN SorryMessage(reply.exc)
                                     ELSE AssistantMessage(reply.value))
                 /\ chat_call' = Some([history |-> history, user_message |-> prompt])
    /\ UNCHANGED <<pc, earlyVars, colVars, reqVars, ixVars>>

\* Clear Chat History
ClearChat ==
    /\ pc = "chat"
    /\ chat_history # None
    /\ chat_history' = <<Greeting>>
    /\ chat_call' = None
    /\ UNCHANGED <<pc, earlyVars, colVars, reqVars, ixVars>>

ChatNext == OpenChat \/ SendChatMessage \/ ClearChat
SpecChat == ChatInit /\ [][ChatNext]_vars

\* the exchanges of a history that were complete before its last message
\* was sent: entries 2k and 2k+1 for every k short of the last exchange
CompletedExchanges(h) ==
    [k \in 1..((Len(h) - 3) \div 2) |-> [user |-> h[2 * k].content, response |-> h[2 * k + 1].content]]

\* C30: chat_history begins with the greeting and strictly alternates user
\* and assistant entries, every user message being followed by exactly one
\* assistant entry (the reply or an error message); the pairs handed to
\* chat_respond are, in order, exactly the exchanges completed before the
\* newest message, so neither the greeting nor the newest message is among
\* them, and the newest message is passed as user_message.
C30_AlternatesAndPairsAreExchanges ==
    chat_history # None =>
        /\ chat_history[1] = Greeting
        /\ Len(chat_history) % 2 = 1
        /\ \A i \in 2..Len(chat_history) :
              chat_history[i].role = (IF i % 2 = 0 THEN "user" ELSE "assistant")
        /\ chat_call # None =>
              /\ Len(chat_history) >= 3
              /\ chat_call[1].history = CompletedExchanges(chat_history)
              /\ chat_call[1].user_message = chat_history[Len(chat_history) - 1].content

\* a third message was sent after an exchange that ended in an error
\* message and one that ended in a reply
C30_Witness ==
    /\ chat_history # None
    /\ Len(chat_history) = 7
    /\ chat_call # None
    /\ Len(chat_call[1].history) = 2
    /\ chat_history[3] = SorryMessage("timeout")
    /\ chat_history[5] = AssistantMessage(<<"x">>)
====
